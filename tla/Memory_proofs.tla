---------------------------- MODULE Memory_proofs ----------------------------
(***************************************************************************)
(* Proofs about Memory.tla, for every size of the machine, every number of *)
(* processes and every program: what the frame allocator returns, type     *)
(* correctness, the ownership of frames, the page tables in Region 1, the  *)
(* shape of a process's memory and the accounts of the allocator.          *)
(***************************************************************************)
EXTENDS Memory, Counting

-----------------------------------------------------------------------------
(* The constants.                                                           *)

\* What MemoryAssumption says, one fact at a time.
LEMMA Sizes ==
    /\ PAGE_TABLE_LEN \in Nat /\ KERNEL_STACK_PAGES \in Nat \ {0}
    /\ MEM_INVALID_PAGES \in Nat \ {0} /\ NumPages \in Nat
    /\ OrigBrk \in Nat \ {0} /\ InitPages \in Nat /\ MaxPid \in Nat \ {0}
    /\ MaxKernelBrk \in Nat /\ MaxKernelBrk <= PAGE_TABLE_LEN
    /\ PAGE_TABLE_LEN > KERNEL_STACK_PAGES + MEM_INVALID_PAGES
    /\ PAGE_TABLE_LEN > OrigBrk + 3
    /\ NumPages >= 2 * PAGE_TABLE_LEN
    /\ ProgramPages \subseteq Nat
    /\ ArgPages \subseteq Nat \ {0}
    /\ Breaks \subseteq Nat
  BY MemoryAssumption

LEMMA Ranges ==
    /\ StackLimit \in Nat /\ StackLimit < PAGE_TABLE_LEN
    /\ Page \subseteq Frame /\ Page \subseteq Nat /\ Frame \subseteq Nat
    /\ KernelStack \subseteq Page
    /\ \A v \in Page : PAGE_TABLE_LEN + v \in Frame /\ PAGE_TABLE_LEN + v \notin Page
    /\ idle \in Proc /\ init \in Proc /\ idle # init
    /\ NoFrame \notin Frame /\ Invalid \notin Frame /\ NoFrame # Invalid
    /\ KERNEL \notin Proc
  BY Sizes DEF StackLimit, Page, Frame, KernelStack, Proc, idle, init, NoFrame,
               Invalid, KERNEL

\* Sets of frames and of pages are finite.
LEMMA FrameSets ==
    ASSUME NEW S \in SUBSET Frame
    PROVE  IsFiniteSet(S) /\ Cardinality(S) \in Nat
<1>1. IsFiniteSet(0 .. NumPages - 1)
  <2>1. NumPages - 1 \in Int
      BY Sizes
  <2> QED
      BY <2>1, FS_Interval
<1>2. IsFiniteSet(S)
    BY <1>1, FS_Subset DEF Frame
<1> QED
    BY <1>2, FS_CardinalityType

LEMMA MinNumber ==
    ASSUME NEW T \in SUBSET Nat, T # {}
    PROVE  Min(T) \in T /\ \A m \in T : Min(T) <= m
<1>1. PICK n \in T : \A m \in T : n <= m
    BY LeastNumber
<1> QED
    BY <1>1 DEF Min

\* A set of numbers below a bound has a greatest element.
LEMMA GreatestNumber ==
    ASSUME NEW b \in Nat, NEW T \in SUBSET (0 .. b), T # {}
    PROVE  Max(T) \in T /\ \A m \in T : Max(T) >= m
<1> DEFINE U == {b - m : m \in T}
<1>1. U \in SUBSET Nat /\ U # {}
  <2>1. \A m \in T : b - m \in Nat
      OBVIOUS
  <2> QED
      BY <2>1
<1>2. Min(U) \in U /\ \A u \in U : Min(U) <= u
    BY <1>1, MinNumber
<1>3. PICK n \in T : Min(U) = b - n
    BY <1>2
<1>4. \A m \in T : b - n <= b - m
    BY <1>2, <1>3
<1>5. \A m \in T : n >= m
    BY <1>4
<1> QED
    BY <1>5 DEF Max

-----------------------------------------------------------------------------
(* The allocator.                                                           *)

\* A lower free frame has a lower rank, so that ranks tell frames apart, and the
\* ranks of n free frames are 0 to n - 1.
LEMMA RankType ==
    ASSUME NEW free \in SUBSET Frame, NEW f \in free
    PROVE  Rank(free, f) \in Nat /\ Rank(free, f) < Cardinality(free)
<1> DEFINE low == {g \in free : g < f}
<1>1. IsFiniteSet(free) /\ IsFiniteSet(low) /\ Cardinality(low) \in Nat
      /\ Cardinality(free) \in Nat
    BY FrameSets
<1>2. f \notin low /\ low \subseteq free \ {f}
    BY Ranges
<1>3. IsFiniteSet(free \ {f}) /\ Cardinality(free \ {f}) = Cardinality(free) - 1
    BY <1>1, FS_RemoveElement
<1>4. Cardinality(low) <= Cardinality(free \ {f})
    BY <1>2, <1>3, FS_Subset
<1> QED
    BY <1>1, <1>3, <1>4 DEF Rank

LEMMA RankIncreases ==
    ASSUME NEW free \in SUBSET Frame, NEW f \in free, NEW g \in free, f < g
    PROVE  Rank(free, f) < Rank(free, g)
<1> DEFINE lowf == {h \in free : h < f}
           lowg == {h \in free : h < g}
<1>1. IsFiniteSet(lowf) /\ IsFiniteSet(lowg)
      /\ Cardinality(lowf) \in Nat /\ Cardinality(lowg) \in Nat
    BY FrameSets
<1>2. f \in lowg /\ lowf \subseteq lowg \ {f}
  <2>1. f \in Nat /\ g \in Nat /\ free \subseteq Nat
      BY Ranges
  <2>2. \A h \in free : h < f => h < g /\ h # f
      BY <2>1
  <2> QED
      BY <2>2
<1>3. IsFiniteSet(lowg \ {f}) /\ Cardinality(lowg \ {f}) = Cardinality(lowg) - 1
    BY <1>1, <1>2, FS_RemoveElement
<1>4. Cardinality(lowf) <= Cardinality(lowg \ {f})
    BY <1>2, <1>3, FS_Subset
<1> QED
    BY <1>1, <1>3, <1>4 DEF Rank

LEMMA RankInjective ==
    ASSUME NEW free \in SUBSET Frame, NEW f \in free, NEW g \in free,
           Rank(free, f) = Rank(free, g)
    PROVE  f = g
<1>1. f \in Nat /\ g \in Nat
    BY Ranges
<1>2. Rank(free, f) \in Nat /\ Rank(free, g) \in Nat
    BY RankType
<1>3. ~(f < g) /\ ~(g < f)
    BY <1>2, RankIncreases
<1> QED
    BY <1>1, <1>3

\* Every number below the number of free frames is the rank of one.
LEMMA RankOnto ==
    ASSUME NEW free \in SUBSET Frame, NEW n \in Nat, n < Cardinality(free)
    PROVE  \E f \in free : Rank(free, f) = n
<1> DEFINE c == Cardinality(free)
           r == [f \in free |-> Rank(free, f)]
<1>1. IsFiniteSet(free) /\ c \in Nat
    BY FrameSets
<1>2. r \in [free -> 0 .. c - 1]
    BY <1>1, RankType
<1>3. \A f, g \in free : r[f] = r[g] => f = g
    BY RankInjective
<1> HIDE DEF c, r
<1>4. IsFiniteSet(0 .. c - 1) /\ Cardinality(0 .. c - 1) = c
  <2>1. c - 1 \in Int
      BY <1>1
  <2>2. /\ IsFiniteSet(0 .. c - 1)
        /\ Cardinality(0 .. c - 1) = IF 0 > c - 1 THEN 0 ELSE (c - 1) - 0 + 1
      BY <2>1, FS_Interval
  <2> QED
      BY <1>1, <2>2
<1>5. r \in Injection(free, 0 .. c - 1)
    BY <1>2, <1>3 DEF Injection, IsInjective
<1>6. r \in Surjection(free, 0 .. c - 1)
    BY <1>4, <1>5, FS_Injection DEF c
<1>7. n \in 0 .. c - 1
    BY <1>1 DEF c
<1>8. PICK f \in free : r[f] = n
    BY <1>6, <1>7 DEF Surjection
<1> QED
    BY <1>8 DEF r

\* The n-th call of findFreePage returns a free frame, or NoFrame when there are
\* fewer than n; no two calls return the same frame.
LEMMA FindFreePage ==
    ASSUME NEW free \in SUBSET Frame, NEW n \in Nat \ {0}
    PROVE  \/ n > Cardinality(free) /\ findFreePage(free, n) = NoFrame
           \/ /\ n <= Cardinality(free)
              /\ findFreePage(free, n) \in free
              /\ Rank(free, findFreePage(free, n)) = n - 1
<1>1. Cardinality(free) \in Nat
    BY FrameSets
<1>2. CASE n <= Cardinality(free)
  <2>1. n - 1 \in Nat /\ n - 1 < Cardinality(free)
      BY <1>1, <1>2
  <2>2. \E f \in free : Rank(free, f) = n - 1
      BY <2>1, RankOnto
  <2> QED
      BY <1>2, <2>2 DEF findFreePage
<1>3. CASE n > Cardinality(free)
    BY <1>1, <1>3 DEF findFreePage
<1> QED
    BY <1>1, <1>2, <1>3

LEMMA FindFreePageTaken ==
    ASSUME NEW free \in SUBSET Frame, NEW n \in Nat \ {0}, NEW m \in Nat, n <= m
    PROVE  findFreePage(free, n) \in Taken(free, m) \cup {NoFrame}
  BY FindFreePage, FrameSets DEF Taken

LEMMA FindFreePageApart ==
    ASSUME NEW free \in SUBSET Frame, NEW n \in Nat \ {0}, NEW m \in Nat \ {0},
           findFreePage(free, n) = findFreePage(free, m),
           findFreePage(free, n) # NoFrame
    PROVE  n = m
  BY FindFreePage, FrameSets, Ranges

-----------------------------------------------------------------------------
(* Filling tables.                                                          *)

\* A loop over the pages of S makes one call of findFreePage for each: the call
\* for v is number Count(S, v).

\* The pages N of table t have been given frames of T, each its own, or NoFrame.
Given(t, N, T) ==
    /\ \A v \in N : t[v] \in T \cup {NoFrame}
    /\ \A v, w \in N : t[v] = t[w] /\ t[v] # NoFrame => v = w

\* Assign gives the pages of S frames that were free, and leaves the others.
LEMMA AssignGives ==
    ASSUME NEW free \in SUBSET Frame, NEW S \in SUBSET Int, IsFiniteSet(S), NEW t
    PROVE  /\ Given(Assign(free, t, S), Page \cap S,
                    Taken(free, Cardinality(S)))
           /\ \A v \in Page \ S : Assign(free, t, S)[v] = t[v]
<1> DEFINE new == Assign(free, t, S)
<1>1. \A v \in Page \cap S : new[v] = findFreePage(free, Count(S, v))
    BY DEF Assign, Count
<1>2. \A v \in Page \ S : new[v] = t[v]
    BY DEF Assign
<1> HIDE DEF new
<1>3. ASSUME NEW v \in Page \cap S
      PROVE  new[v] \in Taken(free, Cardinality(S)) \cup {NoFrame}
    BY <1>1, CountType, FindFreePageTaken
<1>4. ASSUME NEW v \in Page \cap S, NEW w \in Page \cap S,
             new[v] = new[w], new[v] # NoFrame
      PROVE  v = w
  <2>1. Count(S, v) \in Nat \ {0} /\ Count(S, w) \in Nat \ {0}
      BY CountType
  <2>2. Count(S, v) = Count(S, w)
      BY <1>1, <1>4, <2>1, FindFreePageApart
  <2> QED
      BY <2>2, CountApart
<1> QED
    BY <1>2, <1>3, <1>4 DEF Given, new

\* LoadProgram gives frames to the program and its stack and keeps the kernel
\* stack; nothing else is mapped.
LEMMA LoadedGives ==
    ASSUME NEW free \in SUBSET Frame, NEW low \in Nat, NEW stack \in Nat, NEW t
    PROVE  LET N == Page \cap (LowPages(low) \cup StackPages(stack))
           IN  /\ Given(Loaded(free, t, low, stack), N, Taken(free, low + stack))
               /\ \A v \in Page \ N :
                      Loaded(free, t, low, stack)[v]
                          = IF v \in KernelStack THEN t[v] ELSE Invalid
<1> DEFINE new == Loaded(free, t, low, stack)
           N == Page \cap (LowPages(low) \cup StackPages(stack))
           n(v) == IF v \in LowPages(low) THEN v - MEM_INVALID_PAGES + 1
                                          ELSE low + StackLimit - v
<1>1. \A v \in Page \ N : new[v] = IF v \in KernelStack THEN t[v] ELSE Invalid
    BY DEF Loaded
<1>2. \A v \in N : new[v] = findFreePage(free, n(v))
    BY DEF Loaded
<1>3. \A v \in N : /\ n(v) \in Nat \ {0} /\ n(v) <= low + stack
                   /\ v \in LowPages(low) <=> n(v) <= low
    BY Sizes, Ranges DEF LowPages, StackPages
<1>4. \A v, w \in N : n(v) = n(w) => v = w
  <2> SUFFICES ASSUME NEW v \in N, NEW w \in N, n(v) = n(w)
               PROVE  v = w
      OBVIOUS
  <2>1. v \in LowPages(low) <=> w \in LowPages(low)
      BY <1>3
  <2>2. v \in Int /\ w \in Int
      BY Ranges
  <2> QED
      BY <2>1, <2>2, Sizes, Ranges
<1> HIDE DEF new, N, n
<1>5. low + stack \in Nat
    OBVIOUS
<1>6. ASSUME NEW v \in N
      PROVE  new[v] \in Taken(free, low + stack) \cup {NoFrame}
    BY <1>2, <1>3, <1>5, FindFreePageTaken
<1>7. ASSUME NEW v \in N, NEW w \in N, new[v] = new[w], new[v] # NoFrame
      PROVE  v = w
  <2>1. n(v) = n(w)
      BY <1>2, <1>3, <1>7, FindFreePageApart
  <2> QED
      BY <1>4, <2>1
<1> QED
    BY <1>1, <1>6, <1>7 DEF Given, new, N

-----------------------------------------------------------------------------
(* Type correctness.  MemoryTypeOK is inductive with one addition: Fork     *)
(* borrows a page of Region 1, and must find one.                           *)

Entry == Frame \cup {NoFrame, Invalid}

MemPart ==
    /\ freePages \subseteq Frame
    /\ num_free_pages \in Int
    /\ region0 \in [Proc -> [Page -> Entry]]
    /\ region1 \in [Page -> Entry]
    /\ free_vpn \in [Proc -> Page \cup {-1}]
    /\ brk \in [Proc -> Int]
    /\ sp \in [Proc -> Int]
    /\ currKernelBrk \in 1 .. PAGE_TABLE_LEN

\* The kernel heap is mapped, and above it the two pages at the top, which
\* findFreeVirtualPage spares, are not.
HeapOK ==
    /\ \A v \in Page : v < currKernelBrk => region1[v] # Invalid
    /\ \A v \in Page : v >= currKernelBrk /\ v >= PAGE_TABLE_LEN - 2
                           => region1[v] = Invalid

LEMMA TypeParts ==
    MemoryTypeOK <=> /\ MemPart
                     /\ next_proc_id \in 2 .. MaxPid + 1
                     /\ live \subseteq Proc
                     /\ booting \in BOOLEAN
  BY DEF MemoryTypeOK, MemPart, Entry

LEMMA TakenType ==
    ASSUME NEW free \in SUBSET Frame, NEW n
    PROVE  /\ Taken(free, n) \in SUBSET free
           /\ Cardinality(Taken(free, n)) \in Nat
<1>1. Taken(free, n) \in SUBSET free
    BY DEF Taken
<1> QED
    BY <1>1, FrameSets

LEMMA MappedType ==
    ASSUME NEW t
    PROVE  /\ Mapped(t) \in SUBSET Page
           /\ IsFiniteSet(Mapped(t))
           /\ Cardinality(Mapped(t)) \in Nat
<1>1. Mapped(t) \in SUBSET Page /\ Mapped(t) \in SUBSET Frame
    BY Ranges DEF Mapped
<1> QED
    BY <1>1, FrameSets

\* A table that Assign has filled maps what it mapped before, and S.
LEMMA AssignType ==
    ASSUME NEW free \in SUBSET Frame, NEW S \in SUBSET Int, IsFiniteSet(S),
           NEW t \in [Page -> Entry]
    PROVE  /\ Assign(free, t, S) \in [Page -> Entry]
           /\ Mapped(Assign(free, t, S)) = Mapped(t) \cup (Page \cap S)
<1> DEFINE new == Assign(free, t, S)
<1>0. /\ Given(new, Page \cap S, Taken(free, Cardinality(S)))
      /\ \A v \in Page \ S : new[v] = t[v]
    BY AssignGives
<1>1. /\ \A v \in Page \cap S : new[v] \in Taken(free, Cardinality(S)) \cup {NoFrame}
      /\ \A v \in Page \ S : new[v] = t[v]
    BY <1>0, Zenon DEF Given
<1>2. \A v \in Page \cap S : new[v] \in Frame \cup {NoFrame}
    BY <1>1, TakenType
<1>3. new = [v \in Page |-> new[v]]
    BY DEF Assign
<1> HIDE DEF new
<1>4. \A v \in Page : new[v] \in Entry
    BY <1>1, <1>2 DEF Entry
<1>5. Mapped(new) = Mapped(t) \cup (Page \cap S)
  <2>1. \A v \in Page \cap S : new[v] # Invalid
      BY <1>2, Ranges
  <2>2. \A v \in Page \ S : new[v] # Invalid <=> t[v] # Invalid
      BY <1>1
  <2> QED
      BY <2>1, <2>2 DEF Mapped
<1>6. new \in [Page -> Entry]
    BY <1>3, <1>4
<1> QED
    BY <1>5, <1>6 DEF new

\* A table that LoadProgram has filled maps the program and the kernel stack.
LEMMA LoadedType ==
    ASSUME NEW free \in SUBSET Frame, NEW low \in Nat, NEW stack \in Nat,
           NEW t \in [Page -> Entry]
    PROVE  /\ Loaded(free, t, low, stack) \in [Page -> Entry]
           /\ Mapped(Loaded(free, t, low, stack)) =
                (Page \cap (LowPages(low) \cup StackPages(stack)))
                    \cup (Mapped(t) \cap KernelStack)
<1> DEFINE new == Loaded(free, t, low, stack)
           N == Page \cap (LowPages(low) \cup StackPages(stack))
<1>0. /\ Given(new, N, Taken(free, low + stack))
      /\ \A v \in Page \ N : new[v] = IF v \in KernelStack THEN t[v] ELSE Invalid
    BY LoadedGives
<1>1. /\ \A v \in N : new[v] \in Taken(free, low + stack) \cup {NoFrame}
      /\ \A v \in Page \ N : new[v] = IF v \in KernelStack THEN t[v] ELSE Invalid
    BY <1>0, Zenon DEF Given
<1>2. new = [v \in Page |-> new[v]]
    BY DEF Loaded
<1> HIDE DEF new, N
<1>3. \A v \in N : new[v] \in Frame \cup {NoFrame}
    BY <1>1, TakenType
<1>4. \A v \in Page : new[v] \in Entry
    BY <1>1, <1>3 DEF Entry
<1>5. Mapped(new) = N \cup (Mapped(t) \cap KernelStack)
  <2>1. N \subseteq Page
      BY DEF N
  <2>2. \A v \in N : new[v] # Invalid
      BY <1>3, Ranges
  <2>3. \A v \in Page \ N :
           new[v] # Invalid <=> v \in KernelStack /\ t[v] # Invalid
      BY <1>1
  <2> QED
      BY <2>1, <2>2, <2>3 DEF Mapped
<1>6. new \in [Page -> Entry]
    BY <1>2, <1>4
<1> QED
    BY <1>5, <1>6 DEF new, N

\* What freePage is given are frames, if none of them is missing.
LEMMA FreedType ==
    ASSUME MemPart, NEW p \in Proc, Usable(p), NEW S
    PROVE  Freed(region0[p], S) \in SUBSET Frame
  BY DEF MemPart, Usable, Freed, Mapped, Entry

\* findFreeVirtualPage returns the highest page that is not in use, the two
\* at the top aside.
LEMMA FindFreeVirtualPage ==
    ASSUME NEW r1, \E v \in 0 .. PAGE_TABLE_LEN - 3 : r1[v] = Invalid
    PROVE  /\ findFreeVirtualPage(r1) \in 0 .. PAGE_TABLE_LEN - 3
           /\ findFreeVirtualPage(r1) \in Page
           /\ r1[findFreeVirtualPage(r1)] = Invalid
           /\ \A v \in 0 .. PAGE_TABLE_LEN - 3 :
                 v > findFreeVirtualPage(r1) => r1[v] # Invalid
<1> DEFINE T == {v \in 0 .. PAGE_TABLE_LEN - 3 : r1[v] = Invalid}
           b == PAGE_TABLE_LEN - 3
<1>1. b \in Nat
    BY Sizes
<1>2. T \in SUBSET (0 .. b) /\ T # {}
    OBVIOUS
<1>3. Max(T) \in T /\ \A m \in T : Max(T) >= m
    BY <1>1, <1>2, GreatestNumber
<1>4. findFreeVirtualPage(r1) = Max(T)
    BY DEF findFreeVirtualPage
<1>5. Max(T) \in 0 .. b /\ Max(T) \in Page
    BY <1>2, <1>3, Sizes DEF Page
<1>6. \A v \in 0 .. b : v > Max(T) => v \notin T
    BY <1>3, <1>5
<1> QED
    BY <1>3, <1>4, <1>5, <1>6

\* BorrowR1Page finds a page when a new table has been given one.
LEMMA BorrowR1PageFound ==
    ASSUME MemPart, HeapOK,
           \E v \in 0 .. PAGE_TABLE_LEN - 3 : region1[v] = Invalid
    PROVE  BorrowR1Page(BuildRegion0(findFreeVirtualPage(region1))) \in Page
<1> DEFINE vpn == findFreeVirtualPage(region1)
           r1 == BuildRegion0(vpn)
           top == PAGE_TABLE_LEN - 1
           T == {v \in Page : r1[v] = Invalid}
<1>1. vpn \in 0 .. PAGE_TABLE_LEN - 3 /\ vpn \in Page /\ region1[vpn] = Invalid
    BY FindFreeVirtualPage
<1>2. top \in Page /\ top >= PAGE_TABLE_LEN - 2 /\ top # vpn /\ top >= vpn
    BY <1>1, Sizes DEF Page
<1>3. ~(vpn < currKernelBrk)
    BY <1>1 DEF HeapOK
<1>4. top >= currKernelBrk
    BY <1>1, <1>2, <1>3, Sizes DEF MemPart, Page
<1>5. region1[top] = Invalid
    BY <1>2, <1>4 DEF HeapOK
<1>6. r1[top] = Invalid
    BY <1>1, <1>2, <1>5 DEF BuildRegion0, MemPart
<1>7. T \in SUBSET Nat /\ T # {}
    BY <1>2, <1>6, Ranges
<1>8. Min(T) \in T
    BY <1>7, MinNumber
<1> QED
    BY <1>8 DEF BorrowR1Page

\* The operations preserve both.
LEMMA LoadProgramType ==
    ASSUME MemPart, HeapOK, NEW p \in Proc, NEW who \in Proc, Usable(p),
           NEW low \in Nat, NEW stack \in Nat, LoadProgram(p, who, low, stack)
    PROVE  MemPart' /\ HeapOK'
<1> DEFINE Changes ==
              LET old  == Mapped(region0[p]) \ KernelStack
                  free == freePages \cup Freed(region0[p], Page \ KernelStack)
                  new  == Loaded(free, region0[p], low, stack)
              IN  /\ brk' = [brk EXCEPT ![who] = MEM_INVALID_PAGES + low]
                  /\ sp' = [sp EXCEPT ![who] = StackLimit - stack]
                  /\ region0' = [region0 EXCEPT ![p] = new]
                  /\ freePages' = free \ Taken(free, low + stack)
                  /\ num_free_pages' = num_free_pages + Cardinality(old)
                                       - Cardinality(Taken(free, low + stack))
<1>1. MEM_INVALID_PAGES + low \in Int /\ StackLimit - stack \in Int
    BY Sizes, Ranges
<1>2. CASE UNCHANGED memVars
    BY <1>2 DEF memVars, MemPart, HeapOK
<1>3. CASE /\ brk' = [brk EXCEPT ![who] = MEM_INVALID_PAGES + low]
           /\ UNCHANGED <<freePages, num_free_pages, region0, region1,
                          free_vpn, sp, currKernelBrk>>
    BY <1>1, <1>3 DEF MemPart, HeapOK
<1>4. CASE Changes /\ UNCHANGED <<region1, free_vpn, currKernelBrk>>
  <2> DEFINE old  == Mapped(region0[p]) \ KernelStack
             free == freePages \cup Freed(region0[p], Page \ KernelStack)
             new  == Loaded(free, region0[p], low, stack)
  <2>1. free \in SUBSET Frame
      BY FreedType DEF MemPart
  <2>2. region0[p] \in [Page -> Entry]
      BY DEF MemPart
  <2>3. new \in [Page -> Entry]
      BY <2>1, <2>2, LoadedType
  <2>4. Taken(free, low + stack) \in SUBSET free
        /\ Cardinality(Taken(free, low + stack)) \in Nat
      BY <2>1, TakenType
  <2>5. Cardinality(old) \in Nat
    <3>1. old \in SUBSET Frame
        BY MappedType, Ranges
    <3> QED
        BY <3>1, FrameSets
  <2>6. /\ brk' = [brk EXCEPT ![who] = MEM_INVALID_PAGES + low]
        /\ sp' = [sp EXCEPT ![who] = StackLimit - stack]
        /\ region0' = [region0 EXCEPT ![p] = new]
        /\ freePages' = free \ Taken(free, low + stack)
        /\ num_free_pages' = num_free_pages + Cardinality(old)
                             - Cardinality(Taken(free, low + stack))
        /\ UNCHANGED <<region1, free_vpn, currKernelBrk>>
      BY <1>4
  <2> HIDE DEF old, free, new, Changes
  <2>7. HeapOK'
      BY <2>6 DEF HeapOK
  <2>8. freePages' \subseteq Frame /\ num_free_pages' \in Int
    <3>1. freePages' \subseteq Frame
        BY <2>1, <2>6
    <3> QED
        BY <2>4, <2>5, <2>6, <3>1 DEF MemPart
  <2>9. /\ region0' \in [Proc -> [Page -> Entry]]
        /\ brk' \in [Proc -> Int] /\ sp' \in [Proc -> Int]
      BY <1>1, <2>3, <2>6 DEF MemPart
  <2> QED
      BY <2>6, <2>7, <2>8, <2>9 DEF MemPart
<1> QED
    BY <1>2, <1>3, <1>4 DEF LoadProgram

LEMMA ForkMemoryType ==
    ASSUME MemPart, HeapOK, NEW p \in Proc, NEW q \in Proc, NEW c \in Proc,
           ForkMemory(p, q, c)
    PROVE  MemPart' /\ HeapOK'
<1> DEFINE S     == Mapped(region0[p])
           vpn   == findFreeVirtualPage(region1)
           free1 == freePages \ {PAGE_TABLE_LEN + vpn}
           free2 == free1 \ Taken(free1, KERNEL_STACK_PAGES)
           free3 == free2 \ Taken(free2, Cardinality(S))
           new   == Assign(free2, Unmapped, S)
           bor   == BorrowR1Page(BuildRegion0(vpn))
<1>1. /\ region1' = [region1 EXCEPT ![vpn] = PAGE_TABLE_LEN + vpn]
      /\ free_vpn' = [free_vpn EXCEPT ![c] = vpn]
      /\ region0' = [region0 EXCEPT ![c] = new]
      /\ freePages' = free3 \cup {PAGE_TABLE_LEN + bor}
      /\ num_free_pages' =
              num_free_pages - KERNEL_STACK_PAGES - Cardinality(S)
      /\ brk' = [brk EXCEPT ![c] = brk[p]]
      /\ sp' = [sp EXCEPT ![c] = sp[p]]
      /\ UNCHANGED currKernelBrk
    BY Zenon DEF ForkMemory, BuildRegion0
<1>2. \E v \in 0 .. PAGE_TABLE_LEN - 3 : region1[v] = Invalid
    BY DEF ForkMemory, CanFork
<1>3. vpn \in 0 .. PAGE_TABLE_LEN - 3 /\ vpn \in Page /\ region1[vpn] = Invalid
    BY <1>2, FindFreeVirtualPage
<1>4. bor \in Page
    BY <1>2, BorrowR1PageFound
<1>5. S \in SUBSET Page /\ IsFiniteSet(S) /\ Cardinality(S) \in Nat
    BY MappedType
<1>6. free2 \in SUBSET Frame /\ free3 \in SUBSET Frame
    BY TakenType DEF MemPart
<1>7. new \in [Page -> Entry]
  <2>1. Unmapped \in [Page -> Entry]
      BY DEF Unmapped, Entry
  <2> HIDE DEF S, free2
  <2>2. S \in SUBSET Int
    <3>1. Page \subseteq Int
        BY Ranges
    <3> QED
        BY <1>5, <3>1
  <2> QED
      BY <1>5, <1>6, <2>1, <2>2, AssignType
<1>8. PAGE_TABLE_LEN + vpn \in Frame /\ PAGE_TABLE_LEN + bor \in Frame
    BY <1>3, <1>4, Ranges
<1> HIDE DEF S, vpn, free1, free2, free3, new, bor
<1>9. MemPart'
  <2>1. freePages' \subseteq Frame
      BY <1>1, <1>6, <1>8
  <2>2. num_free_pages' \in Int
      BY <1>1, <1>5, Sizes DEF MemPart
  <2>3. region0' \in [Proc -> [Page -> Entry]]
      BY <1>1, <1>7 DEF MemPart
  <2>4. region1' \in [Page -> Entry]
      BY <1>1, <1>8 DEF MemPart, Entry
  <2>5. free_vpn' \in [Proc -> Page \cup {-1}]
      BY <1>1, <1>3 DEF MemPart
  <2>6. brk' \in [Proc -> Int] /\ sp' \in [Proc -> Int]
      BY <1>1 DEF MemPart
  <2> QED
      BY <1>1, <2>1, <2>2, <2>3, <2>4, <2>5, <2>6 DEF MemPart
<1>10. HeapOK'
  <2>1. PAGE_TABLE_LEN + vpn # Invalid
      BY <1>8, Ranges
  <2>2. \A v \in Page : region1'[v] = IF v = vpn THEN PAGE_TABLE_LEN + vpn
                                                ELSE region1[v]
      BY <1>1, <1>3 DEF MemPart
  <2>3. ~(vpn >= PAGE_TABLE_LEN - 2)
      BY <1>3, Sizes
  <2> QED
      BY <1>1, <2>1, <2>2, <2>3 DEF HeapOK
<1> QED
    BY <1>9, <1>10

LEMMA ExitMemoryType ==
    ASSUME MemPart, HeapOK, NEW p \in Proc, Usable(p), ExitMemory(p)
    PROVE  MemPart' /\ HeapOK'
<1>1. Freed(region0[p], Page) \in SUBSET Frame
    BY FreedType
<1>2. Cardinality(Mapped(region0[p])) \in Nat
    BY MappedType
<1> QED
    BY <1>1, <1>2 DEF ExitMemory, MemPart, HeapOK

LEMMA GrowMemoryType ==
    ASSUME MemPart, HeapOK, NEW p \in Proc, NEW q \in Proc, NEW v \in Page,
           GrowMemory(p, q, v)
    PROVE  MemPart' /\ HeapOK'
<1> DEFINE S == v .. sp[p] - 1
           T == Taken(freePages, Cardinality(S))
           new == Assign(freePages, region0[p], S)
<1>1. v \in Int /\ sp[p] - 1 \in Int
    BY Ranges DEF MemPart
<1>2. S \in SUBSET Int /\ IsFiniteSet(S)
  <2>1. IsFiniteSet(S)
      BY <1>1, FS_Interval
  <2>2. S \in SUBSET Int
      BY <1>1
  <2> QED
      BY <2>1, <2>2
<1>3. /\ region0' = [region0 EXCEPT ![p] = new]
      /\ freePages' = freePages \ T
      /\ num_free_pages' = num_free_pages - Cardinality(T)
      /\ sp' = [sp EXCEPT ![p] = v]
      /\ UNCHANGED <<region1, free_vpn, brk, currKernelBrk>>
    BY DEF GrowMemory, MemPart
<1> HIDE DEF S
<1>4. new \in [Page -> Entry]
    BY <1>2, AssignType DEF MemPart
<1>5. T \in SUBSET freePages /\ Cardinality(T) \in Nat
    BY TakenType DEF MemPart
<1> HIDE DEF T, new
<1> QED
    BY <1>1, <1>3, <1>4, <1>5 DEF MemPart, HeapOK

LEMMA BrkMemoryType ==
    ASSUME MemPart, HeapOK, NEW p \in Proc, NEW b \in Nat, BrkMemory(p, b)
    PROVE  MemPart' /\ HeapOK'
<1> DEFINE down == brk[p] .. 2 * brk[p] - b - 1
           up   == brk[p] .. b - 1
           T    == Taken(freePages, Cardinality(up))
<1>1. b \in Int /\ brk[p] \in Int /\ 2 * brk[p] - b - 1 \in Int /\ b - 1 \in Int
    BY Ranges DEF MemPart
<1>2. idle \in Proc
    BY Ranges
<1>3. CASE UNCHANGED memVars
    BY <1>3 DEF memVars, MemPart, HeapOK
<1>4. CASE /\ down \subseteq Page
           /\ freePages' = freePages \cup down
           /\ num_free_pages' = num_free_pages + Cardinality(down)
           /\ region0' = [region0 EXCEPT ![idle] =
                 [v \in Page |-> IF v \in down THEN Invalid ELSE @[v]]]
           /\ brk' = [brk EXCEPT ![p] = b]
           /\ UNCHANGED <<region1, free_vpn, sp, currKernelBrk>>
  <2>1. down \in SUBSET Frame
      BY <1>4, Ranges
  <2>2. Cardinality(down) \in Nat
      BY <2>1, FrameSets
  <2>3. [v \in Page |-> IF v \in down THEN Invalid ELSE region0[idle][v]]
            \in [Page -> Entry]
      BY <1>2 DEF MemPart, Entry
  <2> HIDE DEF down
  <2> QED
      BY <1>1, <1>2, <1>4, <2>1, <2>2, <2>3 DEF MemPart, HeapOK
<1>5. CASE /\ up \subseteq Page
           /\ region0' = [region0 EXCEPT ![idle] = Assign(freePages, @, up)]
           /\ freePages' = freePages \ T
           /\ num_free_pages' = num_free_pages - Cardinality(T)
           /\ brk' = [brk EXCEPT ![p] = b]
           /\ UNCHANGED <<region1, free_vpn, sp, currKernelBrk>>
  <2>1. up \in SUBSET Int /\ IsFiniteSet(up)
    <3> HIDE DEF up
    <3> QED
        BY <1>5, Ranges, FrameSets
  <2> HIDE DEF up
  <2>2. Assign(freePages, region0[idle], up) \in [Page -> Entry]
      BY <1>2, <2>1, AssignType DEF MemPart
  <2>3. T \in SUBSET freePages /\ Cardinality(T) \in Nat
      BY TakenType DEF MemPart
  <2> HIDE DEF T
  <2> QED
      BY <1>1, <1>2, <1>5, <2>2, <2>3 DEF MemPart, HeapOK
<1> QED
    BY <1>3, <1>4, <1>5 DEF BrkMemory, BrkDown, BrkUp

LEMMA SetKernelBrkType ==
    ASSUME MemPart, HeapOK, NEW n \in 1 .. PAGE_TABLE_LEN, SetKernelBrk(n)
    PROVE  MemPart' /\ HeapOK'
<1> DEFINE up == currKernelBrk .. currKernelBrk + n - 1
           T == Taken(freePages, n)
           new == Assign(freePages, region1, up)
<1>1. CASE UNCHANGED memVars
    BY <1>1 DEF memVars, MemPart, HeapOK
<1>2. CASE /\ currKernelBrk + n <= MaxKernelBrk
           /\ region1' = new
           /\ freePages' = freePages \ T
           /\ num_free_pages' = num_free_pages - Cardinality(T)
           /\ currKernelBrk' = currKernelBrk + n
           /\ UNCHANGED <<region0, free_vpn, brk, sp>>
  <2>1. currKernelBrk \in Nat /\ currKernelBrk + n - 1 \in Int
        /\ currKernelBrk + n \in 1 .. PAGE_TABLE_LEN
      BY <1>2, Sizes DEF MemPart
  <2>2. up \in SUBSET Int /\ IsFiniteSet(up)
      BY <2>1, FS_Interval
  <2>3. \A v \in Page : v \in up <=> currKernelBrk <= v /\ v < currKernelBrk + n
      BY <2>1, Ranges
  <2> HIDE DEF up
  <2>4. new \in [Page -> Entry] /\ Mapped(new) = Mapped(region1) \cup (Page \cap up)
      BY <2>2, AssignType DEF MemPart
  <2>5. T \in SUBSET freePages /\ Cardinality(T) \in Nat
      BY TakenType DEF MemPart
  <2>6. \A v \in Page : new[v] # Invalid <=> region1[v] # Invalid \/ v \in up
      BY <2>4 DEF Mapped
  <2> HIDE DEF T, new
  <2>7. MemPart'
      BY <1>2, <2>1, <2>4, <2>5 DEF MemPart
  <2>8. ASSUME NEW v \in Page, v < currKernelBrk + n
        PROVE  new[v] # Invalid
    <3>1. v \in Nat
        BY Ranges
    <3>2. v < currKernelBrk \/ v \in up
        BY <2>1, <2>3, <2>8, <3>1
    <3> QED
        BY <2>6, <3>2 DEF HeapOK
  <2>9. ASSUME NEW v \in Page, v >= currKernelBrk + n, v >= PAGE_TABLE_LEN - 2
        PROVE  new[v] = Invalid
    <3>1. v \in Nat
        BY Ranges
    <3>2. v >= currKernelBrk /\ v \notin up
        BY <2>1, <2>3, <2>9, <3>1
    <3> QED
        BY <2>6, <2>9, <3>2 DEF HeapOK
  <2> QED
      BY <1>2, <2>7, <2>8, <2>9 DEF HeapOK
<1> QED
    BY <1>1, <1>2 DEF SetKernelBrk

-----------------------------------------------------------------------------
(* The state after boot, with a name for each of its parts.                 *)

bootStack == Min(ArgPages)
bootNeed == InitPages + bootStack
bootVpn == findFreeVirtualPage(initPT)
idleStack == [v \in Page |-> IF v \in KernelStack THEN v ELSE Invalid]
bootFree1 == buildFreePages \ Taken(buildFreePages, bootNeed)
bootFree2 == bootFree1 \ {PAGE_TABLE_LEN + bootVpn}
bootFree3 == bootFree2 \ Taken(bootFree2, KERNEL_STACK_PAGES)
initStack == Assign(bootFree2, Unmapped, KernelStack)
idleTable == Loaded(buildFreePages, idleStack, InitPages, bootStack)
initTable == Loaded(bootFree3, initStack, InitPages, bootStack)

LEMMA InitParts ==
    ASSUME Init
    PROVE  /\ freePages = bootFree3 \ Taken(bootFree3, bootNeed)
           /\ num_free_pages = NumPages - 2 * KERNEL_STACK_PAGES - 2 * bootNeed
           /\ region0 = [p \in Proc |-> IF p = idle THEN idleTable
                                        ELSE IF p = init THEN initTable
                                        ELSE Unmapped]
           /\ region1 = [initPT EXCEPT ![bootVpn] = PAGE_TABLE_LEN + bootVpn]
           /\ free_vpn = [p \in Proc |-> IF p = init THEN bootVpn ELSE -1]
           /\ brk = [p \in Proc |-> IF p \in {idle, init}
                                    THEN MEM_INVALID_PAGES + InitPages ELSE -1]
           /\ sp = [p \in Proc |-> IF p \in {idle, init}
                                   THEN StackLimit - bootStack ELSE -1]
           /\ currKernelBrk = OrigBrk
           /\ next_proc_id = 2
           /\ live = {idle, init}
           /\ booting = TRUE
  BY Zenon DEF Init, bootStack, bootNeed, bootVpn, idleStack, bootFree1, bootFree2,
         bootFree3, initStack, idleTable, initTable, IdleTable

LEMMA BootStack ==
    /\ bootStack \in ArgPages /\ bootStack \in Nat \ {0} /\ bootNeed \in Nat
    /\ FitsVirtual(InitPages, bootStack)
<1>1. PICK stack \in ArgPages :
          MEM_INVALID_PAGES + InitPages + 1 + stack + 1 + KERNEL_STACK_PAGES
              <= PAGE_TABLE_LEN
    BY MemoryAssumption
<1>2. bootStack \in ArgPages /\ bootStack <= stack
  <2>1. ArgPages \in SUBSET Nat /\ ArgPages # {}
      BY <1>1, Sizes
  <2> QED
      BY <1>1, <2>1, MinNumber DEF bootStack
<1>3. stack \in Nat /\ bootStack \in Nat \ {0}
    BY <1>1, <1>2, Sizes
<1>4. bootNeed \in Nat
    BY <1>3, Sizes DEF bootNeed
<1> QED
    BY <1>1, <1>2, <1>3, <1>4, Sizes DEF FitsVirtual

\* The first table to be placed in Region 1 is at the third page from its top.
LEMMA BootVpn ==
    /\ initPT \in [Page -> Entry]
    /\ bootVpn = PAGE_TABLE_LEN - 3
    /\ bootVpn \in Page
    /\ PAGE_TABLE_LEN + bootVpn \in Frame
<1>1. initPT \in [Page -> Entry]
    BY Ranges DEF initPT, Entry
<1>2. PAGE_TABLE_LEN - 3 \in 0 .. PAGE_TABLE_LEN - 3
      /\ PAGE_TABLE_LEN - 3 \in Page /\ ~(PAGE_TABLE_LEN - 3 < OrigBrk)
    BY Sizes DEF Page
<1>3. initPT[PAGE_TABLE_LEN - 3] = Invalid
    BY <1>2 DEF initPT
<1>4. /\ bootVpn \in 0 .. PAGE_TABLE_LEN - 3
      /\ \A v \in 0 .. PAGE_TABLE_LEN - 3 : v > bootVpn => initPT[v] # Invalid
    BY <1>2, <1>3, FindFreeVirtualPage DEF bootVpn
<1>5. ~(PAGE_TABLE_LEN - 3 > bootVpn)
    BY <1>2, <1>3, <1>4
<1>6. bootVpn = PAGE_TABLE_LEN - 3
    BY <1>4, <1>5, Sizes
<1> QED
    BY <1>1, <1>2, <1>6, Ranges

LEMMA BootTables ==
    /\ buildFreePages \in SUBSET Frame
    /\ bootFree1 \in SUBSET buildFreePages
    /\ bootFree2 \in SUBSET bootFree1
    /\ bootFree3 \in SUBSET bootFree2
    /\ idleStack \in [Page -> Entry]
    /\ initStack \in [Page -> Entry]
    /\ Mapped(initStack) = KernelStack
    /\ idleTable \in [Page -> Entry]
    /\ initTable \in [Page -> Entry]
<1>1. buildFreePages \in SUBSET Frame
    BY DEF buildFreePages
<1>2. /\ bootFree1 \in SUBSET buildFreePages
      /\ bootFree2 \in SUBSET bootFree1
      /\ bootFree3 \in SUBSET bootFree2
    BY DEF bootFree1, bootFree2, bootFree3
<1>3. bootFree2 \in SUBSET Frame /\ bootFree3 \in SUBSET Frame
    BY <1>1, <1>2
<1>4. idleStack \in [Page -> Entry]
    BY Ranges DEF idleStack, Entry
<1>5. KernelStack \in SUBSET Int /\ IsFiniteSet(KernelStack)
      /\ KernelStack \in SUBSET Page
  <2>1. KernelStack \in SUBSET Page /\ Page \in SUBSET Int /\ Page \in SUBSET Frame
      BY Ranges
  <2> QED
      BY <2>1, FrameSets
<1>6. Unmapped \in [Page -> Entry] /\ Mapped(Unmapped) = {}
    BY DEF Unmapped, Entry, Mapped
<1>7. initStack \in [Page -> Entry]
      /\ Mapped(initStack) = Mapped(Unmapped) \cup (Page \cap KernelStack)
    BY <1>3, <1>5, <1>6, AssignType DEF initStack
<1>8. Mapped(initStack) = KernelStack
    BY <1>5, <1>6, <1>7
<1>9. InitPages \in Nat /\ bootStack \in Nat
    BY Sizes, BootStack
<1>10. idleTable \in [Page -> Entry]
    BY <1>1, <1>4, <1>9, LoadedType DEF idleTable
<1>11. initTable \in [Page -> Entry]
    BY <1>3, <1>7, <1>9, LoadedType DEF initTable
<1> QED
    BY <1>1, <1>2, <1>4, <1>7, <1>8, <1>10, <1>11

LEMMA InitType ==
    ASSUME Init
    PROVE  MemPart /\ HeapOK
<1>1. freePages \subseteq Frame
    BY InitParts, BootTables
<1>2. num_free_pages \in Int
    BY InitParts, BootStack, Sizes
<1>3. region0 \in [Proc -> [Page -> Entry]]
  <2>1. Unmapped \in [Page -> Entry]
      BY DEF Unmapped, Entry
  <2> QED
      BY <2>1, InitParts, BootTables
<1>4. region1 \in [Page -> Entry]
    BY InitParts, BootVpn DEF Entry
<1>5. free_vpn \in [Proc -> Page \cup {-1}]
    BY InitParts, BootVpn
<1>6. brk \in [Proc -> Int]
  <2>1. MEM_INVALID_PAGES + InitPages \in Int /\ -1 \in Int
      BY Sizes
  <2> QED
      BY <2>1, InitParts
<1>7. sp \in [Proc -> Int]
  <2>1. StackLimit - bootStack \in Int /\ -1 \in Int
      BY Ranges, BootStack
  <2> QED
      BY <2>1, InitParts
<1>8. currKernelBrk \in 1 .. PAGE_TABLE_LEN
    BY InitParts, Sizes
<1>9. HeapOK
  <2>1. \A v \in Page : region1[v] = IF v = bootVpn THEN PAGE_TABLE_LEN + bootVpn
                                                    ELSE initPT[v]
      BY InitParts, BootVpn
  <2>2. \A v \in Page : initPT[v] = IF v < OrigBrk THEN PAGE_TABLE_LEN + v
                                                   ELSE Invalid
      BY DEF initPT
  <2>3. \A v \in Page : PAGE_TABLE_LEN + v # Invalid
      BY Ranges
  <2>4. ASSUME NEW v \in Page, v < currKernelBrk
        PROVE  region1[v] # Invalid
      BY <2>1, <2>2, <2>3, <2>4, InitParts, BootVpn
  <2>5. ASSUME NEW v \in Page, v >= currKernelBrk, v >= PAGE_TABLE_LEN - 2
        PROVE  region1[v] = Invalid
    <3>1. v \in Nat /\ currKernelBrk = OrigBrk
        BY Ranges, InitParts
    <3>2. ~(v < OrigBrk) /\ v # bootVpn
        BY <2>5, <3>1, BootVpn, Sizes
    <3> QED
        BY <2>1, <2>2, <3>2
  <2> QED
      BY <2>4, <2>5 DEF HeapOK
<1> QED
    BY <1>1, <1>2, <1>3, <1>4, <1>5, <1>6, <1>7, <1>8, <1>9 DEF MemPart

MInv == MemoryTypeOK /\ HeapOK

\* A caller is a live process and so is the one that runs.
LEMMA CallerType ==
    ASSUME MInv, NEW c \in Callers
    PROVE  /\ c[1] \in Proc /\ c[2] \in Proc
           /\ c[1] \in live \ {idle} /\ c[2] \in live \ {idle}
           /\ Usable(c[1]) /\ Usable(c[2])
           /\ c[1] = c[2] \/ "Rotate" \in Ops
  BY DEF MInv, MemoryTypeOK, Callers

\* Every step is one of the operations, for processes that exist.
LEMMA MInvStep ==
    ASSUME MInv, [Next]_vars
    PROVE  MInv'
<1>1. /\ MemPart /\ HeapOK /\ next_proc_id \in 2 .. MaxPid + 1
      /\ live \subseteq Proc /\ booting \in BOOLEAN
    BY TypeParts DEF MInv
<1> DEFINE Rest == /\ next_proc_id' \in 2 .. MaxPid + 1
                   /\ live' \subseteq Proc
                   /\ booting' \in BOOLEAN
<1>2. ASSUME MemPart', HeapOK', Rest
      PROVE  MInv'
    BY <1>2 DEF MInv, MemPart, MemoryTypeOK, Entry, HeapOK
<1>3. CASE UNCHANGED vars
    BY <1>3 DEF vars, memVars, MInv, MemoryTypeOK, HeapOK
<1>4. ASSUME NEW c \in Callers, Fork(c[1], c[2])
      PROVE  MInv'
  <2>1. next_proc_id \in Proc /\ next_proc_id + 1 \in 2 .. MaxPid + 1
      BY <1>1, <1>4, Sizes DEF Fork, Proc
  <2>2. Rest
      BY <1>1, <1>4, <2>1 DEF Fork
  <2>3. MemPart' /\ HeapOK'
      BY <1>1, <1>4, <2>1, CallerType, ForkMemoryType DEF Fork
  <2> QED
      BY <1>2, <2>2, <2>3
<1>5. ASSUME NEW c \in Callers, Exit(c[1])
      PROVE  MInv'
  <2>1. Rest
      BY <1>1, <1>5 DEF Exit
  <2>2. MemPart' /\ HeapOK'
      BY <1>1, <1>5, CallerType, ExitMemoryType DEF Exit
  <2> QED
      BY <1>2, <2>1, <2>2
<1>6. ASSUME NEW c \in Callers, Exec(c[1])
      PROVE  MInv'
  <2>1. Rest
      BY <1>1, <1>6 DEF Exec
  <2>2. PICK low \in ProgramPages, stack \in ArgPages :
            LoadProgram(c[1], c[1], low, stack)
      BY <1>6 DEF Exec, ExecMemory
  <2>3. low \in Nat /\ stack \in Nat
      BY Sizes
  <2>4. MemPart' /\ HeapOK'
      BY <1>1, <2>2, <2>3, CallerType, LoadProgramType
  <2> QED
      BY <1>2, <2>1, <2>4
<1>7. ASSUME NEW c \in Callers, NEW v \in Page, Grow(c[1], c[2], v)
      PROVE  MInv'
  <2>1. Rest
      BY <1>1, <1>7 DEF Grow
  <2>2. MemPart' /\ HeapOK'
      BY <1>1, <1>7, CallerType, GrowMemoryType DEF Grow
  <2> QED
      BY <1>2, <2>1, <2>2
<1>8. ASSUME NEW c \in Callers, NEW b \in Breaks, Brk(c[1], b)
      PROVE  MInv'
  <2>1. Rest
      BY <1>1, <1>8 DEF Brk
  <2>2. MemPart' /\ HeapOK'
      BY <1>1, <1>8, CallerType, BrkMemoryType, Sizes DEF Brk
  <2> QED
      BY <1>2, <2>1, <2>2
<1>9. CASE Malloc
  <2>1. Rest
      BY <1>1, <1>9 DEF Malloc
  <2>2. MemPart' /\ HeapOK'
      BY <1>1, <1>9, SetKernelBrkType DEF Malloc
  <2> QED
      BY <1>2, <2>1, <2>2
<1>10. CASE Reload
  <2>1. Rest
      BY <1>1, <1>10 DEF Reload
  <2>2. LoadProgram(init, idle, InitPages, bootStack) /\ Usable(init)
      BY <1>10 DEF Reload, ReloadMemory, bootStack
  <2>3. InitPages \in Nat /\ bootStack \in Nat /\ init \in Proc /\ idle \in Proc
      BY Sizes, BootStack, Ranges
  <2>4. MemPart' /\ HeapOK'
      BY <1>1, <2>2, <2>3, LoadProgramType
  <2> QED
      BY <1>2, <2>1, <2>4
<1> QED
    BY <1>3, <1>4, <1>5, <1>6, <1>7, <1>8, <1>9, <1>10 DEF Next

LEMMA MInvInit ==
    Init => MInv
<1> SUFFICES ASSUME Init
             PROVE  MInv
    OBVIOUS
<1>1. MemPart /\ HeapOK
    BY InitType
<1>2. next_proc_id \in 2 .. MaxPid + 1 /\ live \subseteq Proc /\ booting \in BOOLEAN
  <2>1. next_proc_id = 2 /\ 2 \in 2 .. MaxPid + 1
      BY InitParts, Sizes
  <2> QED
      BY <2>1, InitParts, Ranges
<1> QED
    BY <1>1, <1>2, TypeParts DEF MInv

LEMMA MInvCorrect ==
    Spec => []MInv
<1>1. MInv /\ [Next]_vars => MInv'
    BY MInvStep
<1> QED
    BY MInvInit, <1>1, PTL DEF Spec

\* In any order of forks, execs, exits, growth of stacks, breaks and kernel heap
\* and with frames running out, every table holds frames that exist, NoFrame or
\* nothing, and the allocator marks only frames that exist.
THEOREM MemoryTypeCorrect == Spec => []MemoryTypeOK
  BY MInvCorrect, PTL DEF MInv

-----------------------------------------------------------------------------
(* Ownership of the frames below those of Region 1.                         *)

\* Of the tables tab of the users U: a low frame in use is not free, and it is
\* at one page of one table.
Owned(free, U, tab) ==
    /\ \A u \in U, v \in Page :
          tab[u][v] \in LowFrames => tab[u][v] \notin free
    /\ \A u \in U, w \in U, v \in Page, x \in Page :
          tab[u][v] \in LowFrames /\ tab[u][v] = tab[w][x] => u = w /\ v = x

Tables == [u \in Users |-> TableOf(u)]

LEMMA LowRange ==
    /\ NoFrame \notin LowFrames /\ Invalid \notin LowFrames
    /\ \A v \in Page : PAGE_TABLE_LEN + v \notin LowFrames
    /\ LowFrames \subseteq Frame
  BY Sizes DEF NoFrame, Invalid, LowFrames, Page, Frame

\* What every operation does to ownership.  The table of u gets frames of T in
\* the pages N, from those that are free and the frames G that are given back;
\* every other page of a table keeps its frame, unless G has it, or loses it.
Replaced(free, U, tab, free2, U2, tab2, u, N, T, G) ==
    /\ u \in U2 /\ U2 \subseteq U \cup {u} /\ N \subseteq Page
    /\ \A w \in U2 \ {u}, v \in Page :
          tab2[w][v] \in LowFrames
              => tab2[w][v] = tab[w][v] /\ tab2[w][v] \notin G
    /\ Given(tab2[u], N, T)
    /\ \A v \in Page \ N :
          tab2[u][v] \in LowFrames
              => /\ u \in U
                 /\ tab2[u][v] = tab[u][v] /\ tab2[u][v] \notin G
    /\ T \subseteq free \cup G
    /\ \A f \in free2 : f \in LowFrames => f \in free \cup G /\ f \notin T

LEMMA ReplaceTable ==
    ASSUME NEW U, NEW tab, NEW free, NEW U2, NEW tab2, NEW free2,
           NEW u, NEW N, NEW T, NEW G,
           Owned(free, U, tab), Replaced(free, U, tab, free2, U2, tab2, u, N, T, G)
    PROVE  Owned(free2, U2, tab2)
<1> USE DEF Replaced
<1> DEFINE Kept(w, v) == w # u \/ v \notin N
<1>1. ASSUME NEW w \in U2, NEW v \in Page, Kept(w, v), tab2[w][v] \in LowFrames
      PROVE  /\ w \in U /\ tab2[w][v] = tab[w][v]
             /\ tab2[w][v] \notin free /\ tab2[w][v] \notin G
    BY <1>1 DEF Owned
<1>2. ASSUME NEW v \in N, tab2[u][v] \in LowFrames
      PROVE  tab2[u][v] \in T
    BY <1>2, LowRange DEF Given
<1>3. ASSUME NEW w \in U2, NEW v \in Page, tab2[w][v] \in LowFrames
      PROVE  tab2[w][v] \notin free2
  <2>1. CASE Kept(w, v)
      BY <1>1, <1>3, <2>1
  <2>2. CASE ~Kept(w, v)
      BY <1>2, <1>3, <2>2
  <2> QED
      BY <2>1, <2>2
<1>4. ASSUME NEW w \in U2, NEW y \in U2, NEW v \in Page, NEW x \in Page,
             tab2[w][v] \in LowFrames, tab2[w][v] = tab2[y][x]
      PROVE  w = y /\ v = x
  <2>1. CASE Kept(w, v) /\ Kept(y, x)
      BY <1>1, <1>4, <2>1 DEF Owned
  <2>2. CASE Kept(w, v) /\ ~Kept(y, x)
    <3>1. tab2[w][v] \in T
        BY <1>2, <1>4, <2>2
    <3> QED
        BY <1>1, <1>4, <2>2, <3>1
  <2>3. CASE ~Kept(w, v) /\ Kept(y, x)
    <3>1. tab2[y][x] \in T
        BY <1>2, <1>4, <2>3
    <3> QED
        BY <1>1, <1>4, <2>3, <3>1
  <2>4. CASE ~Kept(w, v) /\ ~Kept(y, x)
    <3>1. tab2[w][v] # NoFrame
        BY <1>4, LowRange
    <3> QED
        BY <1>4, <2>4, <3>1 DEF Given
  <2> QED
      BY <2>1, <2>2, <2>3, <2>4
<1> QED
    BY <1>3, <1>4 DEF Owned

\* Ownership is what FramesOwned says with cardinalities.
LEMMA OwnedFrames ==
    ASSUME Owned(freePages, Users, Tables)
    PROVE  FramesOwned
<1>1. \A u \in Users : Tables[u] = TableOf(u)
    BY DEF Tables
<1> SUFFICES ASSUME NEW f \in LowFrames
             PROVE  /\ Cardinality(UsesOf(f)) <= 1
                    /\ UsesOf(f) # {} => f \notin freePages
    BY DEF FramesOwned
<1>2. CASE UsesOf(f) = {}
    BY <1>2, FS_EmptySet
<1>3. CASE UsesOf(f) # {}
  <2>1. PICK x \in UsesOf(f) : TRUE
      BY <1>3
  <2>2. /\ x \in Users \X Page /\ x[1] \in Users /\ x[2] \in Page
        /\ TableOf(x[1])[x[2]] = f
      BY <2>1 DEF UsesOf
  <2>3. f \notin freePages
      BY <1>1, <2>2 DEF Owned
  <2>4. ASSUME NEW y \in UsesOf(f)
        PROVE  y = x
    <3>1. /\ y \in Users \X Page /\ y[1] \in Users /\ y[2] \in Page
          /\ TableOf(y[1])[y[2]] = f
        BY DEF UsesOf
    <3>2. Tables[y[1]][y[2]] = f /\ Tables[x[1]][x[2]] = f
        BY <1>1, <2>2, <3>1
    <3>3. y[1] = x[1] /\ y[2] = x[2]
        BY <2>2, <3>1, <3>2 DEF Owned
    <3> QED
        BY <2>2, <3>1, <3>3
  <2>5. UsesOf(f) = {x}
      BY <2>1, <2>4
  <2>6. Cardinality(UsesOf(f)) = 1
      BY <2>5, FS_Singleton
  <2> QED
      BY <2>3, <2>6
<1> QED
    BY <1>2, <1>3

LEMMA TablesAre ==
    /\ \A u \in Users : Tables[u] = IF u = KERNEL THEN region1 ELSE region0[u]
    /\ \A u \in Users' : Tables'[u] = IF u = KERNEL THEN region1' ELSE region0'[u]
    /\ Users = live \cup {KERNEL} /\ Users' = live' \cup {KERNEL}
<1>1. \A u \in Users : Tables[u] = IF u = KERNEL THEN region1 ELSE region0[u]
    BY DEF Tables, TableOf
<1>2. \A u \in Users' : Tables'[u] = IF u = KERNEL THEN region1' ELSE region0'[u]
    BY DEF Tables, TableOf
<1> QED
    BY <1>1, <1>2 DEF Users

FreeOwned == Owned(freePages, Users, Tables)

\* The operations preserve ownership.
LEMMA ForkMemoryOwned ==
    ASSUME MemPart, HeapOK, FreeOwned, live \subseteq Proc,
           NEW p \in Proc, NEW q \in Proc, NEW c \in Proc \ live,
           live' = live \cup {c}, ForkMemory(p, q, c)
    PROVE  FreeOwned'
<1> DEFINE S     == Mapped(region0[p])
           vpn   == findFreeVirtualPage(region1)
           free1 == freePages \ {PAGE_TABLE_LEN + vpn}
           free2 == free1 \ Taken(free1, KERNEL_STACK_PAGES)
           T     == Taken(free2, Cardinality(S))
           new   == Assign(free2, Unmapped, S)
           bor   == BorrowR1Page(BuildRegion0(vpn))
<1>1. /\ region1' = [region1 EXCEPT ![vpn] = PAGE_TABLE_LEN + vpn]
      /\ region0' = [region0 EXCEPT ![c] = new]
      /\ freePages' = (free2 \ T) \cup {PAGE_TABLE_LEN + bor}
    BY Zenon DEF ForkMemory, BuildRegion0
<1>2. \E v \in 0 .. PAGE_TABLE_LEN - 3 : region1[v] = Invalid
    BY DEF ForkMemory, CanFork
<1>3. vpn \in Page
    BY <1>2, FindFreeVirtualPage
<1>4. bor \in Page
    BY <1>2, BorrowR1PageFound
<1>5. S \in SUBSET Page /\ IsFiniteSet(S)
    BY MappedType
<1>6. free2 \in SUBSET Frame /\ free2 \subseteq freePages /\ T \subseteq free2
    BY TakenType DEF MemPart
<1>7. Given(new, S, T) /\ \A v \in Page \ S : new[v] = Invalid
  <2> HIDE DEF S, free2
  <2>1. S \in SUBSET Int
    <3>1. Page \subseteq Int
        BY Ranges
    <3> QED
        BY <1>5, <3>1
  <2>2. /\ Given(new, Page \cap S, T)
        /\ \A v \in Page \ S : new[v] = Unmapped[v]
      BY <1>5, <1>6, <2>1, AssignGives
  <2>3. Page \cap S = S
      BY <1>5
  <2> QED
      BY <2>2, <2>3 DEF Unmapped
<1> HIDE DEF S, vpn, free1, free2, T, new, bor
<1>8. \A w \in Users' \ {c}, v \in Page :
          Tables'[w][v] \in LowFrames => Tables'[w][v] = Tables[w][v]
  <2> SUFFICES ASSUME NEW w \in Users' \ {c}, NEW v \in Page,
                      Tables'[w][v] \in LowFrames
               PROVE  Tables'[w][v] = Tables[w][v]
      OBVIOUS
  <2>1. CASE w = KERNEL
    <3>1. Tables'[w] = region1' /\ Tables[w] = region1
        BY <2>1, TablesAre
    <3>2. v # vpn
        BY <1>1, <1>3, <3>1, LowRange DEF MemPart
    <3> QED
        BY <1>1, <3>1, <3>2 DEF MemPart
  <2>2. CASE w # KERNEL
    <3>1. w \in live /\ Tables'[w] = region0'[w] /\ Tables[w] = region0[w]
        BY <2>2, TablesAre
    <3> QED
        BY <1>1, <3>1 DEF MemPart
  <2> QED
      BY <2>1, <2>2
<1>9. c \in Users' /\ Tables'[c] = new /\ Users' \subseteq Users \cup {c}
  <2>1. c # KERNEL
      BY Ranges
  <2>2. region0'[c] = new
      BY <1>1 DEF MemPart
  <2> QED
      BY <2>1, <2>2, TablesAre
<1>10. \A f \in freePages' : f \in LowFrames => f \in freePages /\ f \notin T
    BY <1>1, <1>4, <1>6, LowRange
<1>11. \A v \in Page \ S : Tables'[c][v] \notin LowFrames
    BY <1>7, <1>9, LowRange
<1> QED
  <2> DEFINE G == {}
  <2>1. \A w \in Users' \ {c}, v \in Page :
            Tables'[w][v] \in LowFrames
                => Tables'[w][v] = Tables[w][v] /\ Tables'[w][v] \notin G
      BY <1>8
  <2>2. \A v \in Page \ S :
            Tables'[c][v] \in LowFrames
                => /\ c \in Users
                   /\ Tables'[c][v] = Tables[c][v] /\ Tables'[c][v] \notin G
      BY <1>11
  <2>3. T \subseteq freePages \cup G
      BY <1>6
  <2>4. \A f \in freePages' : f \in LowFrames => f \in freePages \cup G /\ f \notin T
      BY <1>10
  <2>5. Given(Tables'[c], S, T)
      BY <1>7, <1>9
  <2>6. Owned(freePages, Users, Tables)
      BY DEF FreeOwned
  <2> HIDE DEF G
  <2>7. Owned(freePages', Users', Tables')
    <3>1. Replaced(freePages, Users, Tables, freePages', Users', Tables',
                   c, S, T, G)
        BY <1>5, <1>9, <2>1, <2>2, <2>3, <2>4, <2>5 DEF Replaced
    <3> QED
        BY <2>6, <3>1, ReplaceTable
  <2> QED
      BY <2>7 DEF FreeOwned

\* The frames G are freed, and none of them is in use any more.
LEMMA FreeingOwned ==
    ASSUME FreeOwned, live' \subseteq live, NEW G,
           UNCHANGED region1, \A w \in live' : region0'[w] = region0[w],
           \A w \in Users', v \in Page :
               Tables[w][v] \in LowFrames => Tables[w][v] \notin G,
           freePages' \subseteq freePages \cup G
    PROVE  FreeOwned'
<1>1. Users' \subseteq Users
    BY TablesAre
<1>2. \A w \in Users' : Tables'[w] = Tables[w]
    BY <1>1, TablesAre
<1> QED
    BY <1>1, <1>2 DEF FreeOwned, Owned

LEMMA SameOwned ==
    ASSUME FreeOwned, UNCHANGED <<freePages, region0, region1, live>>
    PROVE  FreeOwned'
<1> DEFINE G == {}
<1>1. \A w \in Users', v \in Page :
          Tables[w][v] \in LowFrames => Tables[w][v] \notin G
    OBVIOUS
<1>2. freePages' \subseteq freePages \cup G
    OBVIOUS
<1> HIDE DEF G
<1> QED
    BY <1>1, <1>2, FreeingOwned

\* A process gives its pages back, or a part of them.
LEMMA FreedUnshared ==
    ASSUME FreeOwned, NEW p \in live, live \subseteq Proc, NEW S
    PROVE  /\ \A w \in Users \ {p}, v \in Page :
                 Tables[w][v] \in LowFrames
                     => Tables[w][v] \notin Freed(region0[p], S)
           /\ \A v \in Page \ S :
                 region0[p][v] \in LowFrames
                     => region0[p][v] \notin Freed(region0[p], S)
<1>1. p \in Users /\ Tables[p] = region0[p]
    BY TablesAre, Ranges
<1>2. \A f \in Freed(region0[p], S) : \E x \in S \cap Page : f = Tables[p][x]
    BY <1>1 DEF Freed, Mapped
<1>3. ASSUME NEW w \in Users \ {p}, NEW v \in Page, Tables[w][v] \in LowFrames,
             Tables[w][v] \in Freed(region0[p], S)
      PROVE  FALSE
    BY <1>1, <1>2, <1>3 DEF FreeOwned, Owned
<1>4. ASSUME NEW v \in Page \ S, region0[p][v] \in LowFrames,
             region0[p][v] \in Freed(region0[p], S)
      PROVE  FALSE
    BY <1>1, <1>2, <1>4 DEF FreeOwned, Owned
<1> QED
    BY <1>3, <1>4

LEMMA ExitMemoryOwned ==
    ASSUME MemPart, FreeOwned, live \subseteq Proc, NEW p \in live,
           live' = live \ {p}, ExitMemory(p)
    PROVE  FreeOwned'
<1> DEFINE G == Freed(region0[p], Page)
<1>1. /\ UNCHANGED <<region0, region1>>
      /\ freePages' \subseteq freePages \cup G
    BY DEF ExitMemory
<1>2. \A w \in Users \ {p}, v \in Page :
          Tables[w][v] \in LowFrames => Tables[w][v] \notin G
    BY FreedUnshared
<1>3. Users' = Users \ {p}
    BY TablesAre, Ranges
<1> HIDE DEF G
<1>4. \A w \in Users', v \in Page :
          Tables[w][v] \in LowFrames => Tables[w][v] \notin G
    BY <1>2, <1>3
<1> QED
    BY <1>1, <1>4, FreeingOwned

LEMMA LoadProgramOwned ==
    ASSUME MemPart, FreeOwned, live \subseteq Proc, NEW p \in live, Usable(p),
           UNCHANGED live, NEW who \in Proc, NEW low \in Nat, NEW stack \in Nat,
           LoadProgram(p, who, low, stack)
    PROVE  FreeOwned'
<1>1. CASE UNCHANGED <<freePages, region0, region1>>
    BY <1>1, SameOwned
<1> DEFINE G   == Freed(region0[p], Page \ KernelStack)
           T   == Taken(freePages \cup G, low + stack)
           new == Loaded(freePages \cup G, region0[p], low, stack)
           N   == Page \cap (LowPages(low) \cup StackPages(stack))
<1>2. CASE /\ region0' = [region0 EXCEPT ![p] = new]
           /\ freePages' = (freePages \cup G) \ T
           /\ UNCHANGED region1
           /\ FitsVirtual(low, stack)
  <2>1. p \in Proc /\ p # KERNEL
      BY Ranges
  <2>2. freePages \cup G \in SUBSET Frame
      BY <2>1, FreedType DEF MemPart
  <2>3. /\ Given(new, N, T)
        /\ \A v \in Page \ N : new[v] = IF v \in KernelStack THEN region0[p][v]
                                                             ELSE Invalid
      BY <2>2, LoadedGives
  <2>4. T \subseteq freePages \cup G
      BY <2>2, TakenType
  <2>5. /\ \A w \in Users \ {p}, v \in Page :
              Tables[w][v] \in LowFrames => Tables[w][v] \notin G
        /\ \A v \in Page \ (Page \ KernelStack) :
              region0[p][v] \in LowFrames => region0[p][v] \notin G
      BY FreedUnshared
  <2>6. Users' = Users /\ p \in Users
      BY TablesAre
  <2>7. Tables'[p] = new /\ Tables[p] = region0[p]
      BY <1>2, <2>1, <2>6, TablesAre DEF MemPart
  <2>8. \A w \in Users' \ {p} : Tables'[w] = Tables[w]
      BY <1>2, <2>6, TablesAre DEF MemPart
  <2>9. N \in SUBSET Page
      OBVIOUS
  <2> HIDE DEF G, T, new, N
  <2>10. \A w \in Users' \ {p}, v \in Page :
            Tables'[w][v] \in LowFrames
                => Tables'[w][v] = Tables[w][v] /\ Tables'[w][v] \notin G
      BY <2>5, <2>6, <2>8
  <2>11. \A v \in Page \ N :
            Tables'[p][v] \in LowFrames
                => /\ p \in Users
                   /\ Tables'[p][v] = Tables[p][v] /\ Tables'[p][v] \notin G
    <3> SUFFICES ASSUME NEW v \in Page \ N, Tables'[p][v] \in LowFrames
                 PROVE  /\ p \in Users
                        /\ Tables'[p][v] = Tables[p][v] /\ Tables'[p][v] \notin G
        OBVIOUS
    <3>1. v \in KernelStack /\ new[v] = region0[p][v]
        BY <2>3, <2>7, LowRange
    <3>2. v \in Page \ (Page \ KernelStack)
        BY <3>1
    <3> QED
        BY <2>5, <2>6, <2>7, <3>1, <3>2
  <2>12. \A f \in freePages' :
            f \in LowFrames => f \in freePages \cup G /\ f \notin T
      BY <1>2
  <2>13. Given(Tables'[p], N, T) /\ p \in Users' /\ Users' \subseteq Users \cup {p}
      BY <2>3, <2>6, <2>7
  <2>14. Owned(freePages, Users, Tables)
      BY DEF FreeOwned
  <2>15. Owned(freePages', Users', Tables')
    <3>1. Replaced(freePages, Users, Tables, freePages', Users', Tables',
                   p, N, T, G)
        BY <2>4, <2>9, <2>10, <2>11, <2>12, <2>13 DEF Replaced
    <3> QED
        BY <2>14, <3>1, ReplaceTable
  <2> QED
      BY <2>15 DEF FreeOwned
<1> QED
    BY <1>1, <1>2 DEF LoadProgram, memVars

\* Free frames are given to pages of a table, and its others stay.
LEMMA AssignOwned ==
    ASSUME MemPart, FreeOwned, live \subseteq Proc, UNCHANGED live,
           NEW u \in Users, NEW S \in SUBSET Int, IsFiniteSet(S),
           Tables'[u] = Assign(freePages, Tables[u], S),
           \A w \in Users \ {u} : Tables'[w] = Tables[w],
           freePages' = freePages \ Taken(freePages, Cardinality(S))
    PROVE  FreeOwned'
<1> DEFINE T == Taken(freePages, Cardinality(S))
           N == Page \cap S
           G == {}
<1>1. freePages \in SUBSET Frame
    BY DEF MemPart
<1>2. Given(Tables'[u], N, T) /\ \A v \in Page \ S : Tables'[u][v] = Tables[u][v]
  <2> DEFINE t == Tables[u]
             new == Assign(freePages, t, S)
  <2>1. Given(new, N, T) /\ \A v \in Page \ S : new[v] = t[v]
      BY <1>1, AssignGives
  <2> QED
      BY <2>1
<1>3. Users' = Users
    BY TablesAre
<1>4. Owned(freePages, Users, Tables)
    BY DEF FreeOwned
<1>5. T \subseteq freePages \cup G
    BY <1>1, TakenType
<1>6. \A w \in Users' \ {u}, v \in Page :
          Tables'[w][v] \in LowFrames
              => Tables'[w][v] = Tables[w][v] /\ Tables'[w][v] \notin G
    BY <1>3
<1>7. \A v \in Page \ N :
          Tables'[u][v] \in LowFrames
              => /\ u \in Users
                 /\ Tables'[u][v] = Tables[u][v] /\ Tables'[u][v] \notin G
    BY <1>2
<1>8. \A f \in freePages' : f \in LowFrames => f \in freePages \cup G /\ f \notin T
    OBVIOUS
<1>9. N \in SUBSET Page /\ u \in Users' /\ Users' \subseteq Users \cup {u}
    BY <1>3
<1> HIDE DEF T, N, G
<1>10. Owned(freePages', Users', Tables')
  <2>1. Replaced(freePages, Users, Tables, freePages', Users', Tables',
                 u, N, T, G)
      BY <1>2, <1>5, <1>6, <1>7, <1>8, <1>9 DEF Replaced
  <2> QED
      BY <1>4, <2>1, ReplaceTable
<1> QED
    BY <1>10 DEF FreeOwned

LEMMA GrowMemoryOwned ==
    ASSUME MemPart, FreeOwned, live \subseteq Proc, UNCHANGED live,
           NEW p \in live, NEW q \in Proc, NEW v \in Page, GrowMemory(p, q, v)
    PROVE  FreeOwned'
<1> DEFINE S == v .. sp[p] - 1
<1>1. v \in Int /\ sp[p] - 1 \in Int
    BY Ranges DEF MemPart
<1>2. S \in SUBSET Int /\ IsFiniteSet(S)
    BY <1>1, FS_Interval
<1>3. /\ region0' = [region0 EXCEPT ![p] = Assign(freePages, region0[p], S)]
      /\ freePages' = freePages \ Taken(freePages, Cardinality(S))
      /\ UNCHANGED region1
    BY DEF GrowMemory, MemPart
<1> HIDE DEF S
<1>4. p \in Users /\ Users' = Users /\ p # KERNEL /\ p \in Proc
    BY TablesAre, Ranges
<1>5. Tables'[p] = Assign(freePages, Tables[p], S)
    BY <1>3, <1>4, TablesAre DEF MemPart
<1>6. \A w \in Users \ {p} : Tables'[w] = Tables[w]
    BY <1>3, <1>4, TablesAre DEF MemPart
<1> QED
    BY <1>2, <1>3, <1>4, <1>5, <1>6, AssignOwned

LEMMA SetKernelBrkOwned ==
    ASSUME MemPart, FreeOwned, live \subseteq Proc, UNCHANGED live,
           NEW n \in 1 .. PAGE_TABLE_LEN, SetKernelBrk(n)
    PROVE  FreeOwned'
<1> DEFINE S == currKernelBrk .. currKernelBrk + n - 1
<1>1. CASE UNCHANGED memVars
    BY <1>1, SameOwned DEF memVars
<1>2. CASE /\ region1' = Assign(freePages, region1, S)
           /\ freePages' = freePages \ Taken(freePages, n)
           /\ UNCHANGED region0
  <2>1. currKernelBrk \in Nat /\ currKernelBrk + n - 1 \in Int
        /\ ~(currKernelBrk > currKernelBrk + n - 1)
        /\ (currKernelBrk + n - 1) - currKernelBrk + 1 = n
      BY DEF MemPart
  <2>2. S \in SUBSET Int /\ IsFiniteSet(S) /\ Cardinality(S) = n
      BY <2>1, FS_Interval
  <2> HIDE DEF S
  <2>3. KERNEL \in Users /\ Users' = Users
      BY TablesAre
  <2>4. Tables'[KERNEL] = Assign(freePages, Tables[KERNEL], S)
      BY <1>2, <2>3, TablesAre
  <2>5. \A w \in Users \ {KERNEL} : Tables'[w] = Tables[w]
      BY <1>2, <2>3, TablesAre
  <2> QED
      BY <1>2, <2>2, <2>3, <2>4, <2>5, AssignOwned
<1> QED
    BY <1>1, <1>2 DEF SetKernelBrk

\* At boot: idle's kernel stack is in the frames of the same number, and the three
\* loops that fill the two tables take their frames one after the other.
LEMMA InitOwned ==
    ASSUME Init
    PROVE  FreeOwned
<1> DEFINE U0 == {KERNEL, idle}
           U1 == {KERNEL, idle, init}
           G  == {}
           T1 == Taken(buildFreePages, bootNeed)
           T2 == Taken(bootFree2, KERNEL_STACK_PAGES)
           T3 == Taken(bootFree3, bootNeed)
           N  == Page \cap (LowPages(InitPages) \cup StackPages(bootStack))
           tab0 == [u \in U0 |-> IF u = KERNEL THEN region1 ELSE idleStack]
           tab1 == [u \in U0 |-> IF u = KERNEL THEN region1 ELSE idleTable]
           tab2 == [u \in U1 |-> IF u = KERNEL THEN region1
                                 ELSE IF u = idle THEN idleTable ELSE initStack]
           tab3 == [u \in U1 |-> IF u = KERNEL THEN region1
                                 ELSE IF u = idle THEN idleTable ELSE initTable]
<1>1. KERNEL # idle /\ KERNEL # init /\ idle # init /\ idle \in Proc /\ init \in Proc
    BY Ranges
<1>2. \A v \in Page : region1[v] \notin LowFrames
  <2>1. \A v \in Page : region1[v] = IF v = bootVpn THEN PAGE_TABLE_LEN + bootVpn
                                                    ELSE initPT[v]
      BY InitParts, BootVpn
  <2>2. \A v \in Page : initPT[v] = IF v < OrigBrk THEN PAGE_TABLE_LEN + v
                                                   ELSE Invalid
      BY DEF initPT
  <2> QED
      BY <2>1, <2>2, BootVpn, LowRange
<1>3. buildFreePages \in SUBSET Frame /\ bootFree2 \in SUBSET Frame
      /\ bootFree3 \in SUBSET Frame
    BY BootTables
<1>4. /\ T1 \subseteq buildFreePages /\ T2 \subseteq bootFree2
      /\ T3 \subseteq bootFree3
    BY <1>3, TakenType
<1>5. InitPages \in Nat /\ bootStack \in Nat
    BY Sizes, BootStack
<1>6. /\ Given(idleTable, N, T1)
      /\ \A v \in Page \ N : idleTable[v] = IF v \in KernelStack
                                            THEN idleStack[v] ELSE Invalid
    BY <1>3, <1>5, LoadedGives DEF idleTable, bootNeed
<1>7. /\ Given(initTable, N, T3)
      /\ \A v \in Page \ N : initTable[v] = IF v \in KernelStack
                                            THEN initStack[v] ELSE Invalid
    BY <1>3, <1>5, LoadedGives DEF initTable, bootNeed
<1>8. /\ KernelStack \subseteq Page
      /\ Given(initStack, KernelStack, T2)
      /\ \A v \in Page \ KernelStack : initStack[v] = Invalid
  <2>1. KernelStack \in SUBSET Page /\ Page \in SUBSET Int /\ Page \in SUBSET Frame
      BY Ranges
  <2>2. IsFiniteSet(KernelStack) /\ KernelStack \in SUBSET Int
      BY <2>1, FrameSets
  <2>3. Cardinality(KernelStack) = KERNEL_STACK_PAGES
    <3>1. /\ StackLimit \in Int /\ PAGE_TABLE_LEN - 1 \in Int
          /\ ~(StackLimit > PAGE_TABLE_LEN - 1)
          /\ (PAGE_TABLE_LEN - 1) - StackLimit + 1 = KERNEL_STACK_PAGES
        BY Sizes DEF StackLimit
    <3> QED
        BY <3>1, FS_Interval DEF KernelStack
  <2>4. /\ Given(initStack, Page \cap KernelStack, T2)
        /\ \A v \in Page \ KernelStack : initStack[v] = Unmapped[v]
      BY <1>3, <2>2, <2>3, AssignGives DEF initStack
  <2>5. Page \cap KernelStack = KernelStack
      BY <2>1
  <2> QED
      BY <2>1, <2>4, <2>5 DEF Unmapped
<1>9. \A v \in Page : idleStack[v] \in LowFrames
                          => idleStack[v] = v /\ v \notin buildFreePages
    BY LowRange DEF idleStack, buildFreePages
<1>10. /\ tab0[KERNEL] = region1 /\ tab0[idle] = idleStack
       /\ tab1[KERNEL] = region1 /\ tab1[idle] = idleTable
       /\ tab2[KERNEL] = region1 /\ tab2[idle] = idleTable /\ tab2[init] = initStack
       /\ tab3[KERNEL] = region1 /\ tab3[idle] = idleTable /\ tab3[init] = initTable
    BY <1>1
<1> HIDE DEF T1, T2, T3, tab0, tab1, tab2, tab3, N
<1>11. Owned(buildFreePages, U0, tab0)
    BY <1>1, <1>2, <1>9, <1>10 DEF Owned
<1>12. Owned(bootFree1, U0, tab1)
  <2>1. N \subseteq Page
      BY DEF N
  <2>2. Replaced(buildFreePages, U0, tab0, bootFree1, U0, tab1, idle, N, T1, G)
      BY <1>1, <1>2, <1>4, <1>6, <1>10, <2>1, LowRange
      DEF Replaced, bootFree1, T1
  <2> QED
      BY <1>11, <2>2, ReplaceTable
<1>13. Owned(bootFree3, U1, tab2)
  <2>1. Replaced(bootFree1, U0, tab1, bootFree3, U1, tab2, init, KernelStack, T2, G)
      BY <1>1, <1>2, <1>4, <1>8, <1>10, LowRange
      DEF Replaced, bootFree2, bootFree3, T2
  <2> QED
      BY <1>12, <2>1, ReplaceTable
<1>14. Owned(bootFree3 \ T3, U1, tab3)
  <2>1. N \subseteq Page
      BY DEF N
  <2>2. Replaced(bootFree3, U1, tab2, bootFree3 \ T3, U1, tab3, init, N, T3, G)
      BY <1>1, <1>2, <1>4, <1>7, <1>10, <2>1, LowRange DEF Replaced
  <2> QED
      BY <1>13, <2>2, ReplaceTable
<1>15. freePages = bootFree3 \ T3
    BY InitParts DEF T3
<1>16. Users = U1
    BY InitParts DEF Users
<1>17. region0[idle] = idleTable /\ region0[init] = initTable
    BY <1>1, InitParts
<1>18. \A u \in U1 : Tables[u] = tab3[u]
    BY <1>1, <1>10, <1>16, <1>17, TablesAre
<1> QED
    BY <1>14, <1>15, <1>16, <1>18 DEF FreeOwned, Owned

-----------------------------------------------------------------------------
(* FramesOwned.  Between the exit of init and its reload, the table of init *)
(* is that of no live process, and still the kernel frees its frames once   *)
(* more: they are not idle's, and nobody else is left.                      *)

\* idle never gives up its frames, so that no other table comes to hold them.
InitNotIdle ==
    \A v \in Page, w \in Page :
        region0[init][v] \in LowFrames => region0[init][v] # region0[idle][w]

\* Without malloc, Region 1 maps only its own frames.
HeapHigh == "Malloc" \notin Ops => \A v \in Page : region1[v] \notin LowFrames

\* Process ids are given out in increasing order.
IdsUsed == /\ idle \in live
           /\ init < next_proc_id
           /\ \A p \in live : p < next_proc_id

FInv == MInv /\ IdsUsed /\ FreeOwned /\ InitNotIdle /\ HeapHigh

LEMMA InitNotIdleLive ==
    ASSUME FreeOwned, idle \in live, init \in live
    PROVE  InitNotIdle
<1>1. /\ idle \in Users /\ Tables[idle] = region0[idle]
      /\ init \in Users /\ Tables[init] = region0[init] /\ idle # init
    BY TablesAre, Ranges
<1> QED
    BY <1>1 DEF FreeOwned, Owned, InitNotIdle

LEMMA FInvInit ==
    Init => FInv
<1> SUFFICES ASSUME Init
             PROVE  FInv
    OBVIOUS
<1>1. MInv /\ FreeOwned
    BY MInvInit, InitOwned
<1>2. IdsUsed
    BY InitParts DEF IdsUsed, idle, init
<1>3. InitNotIdle
    BY <1>1, InitParts, InitNotIdleLive
<1>4. HeapHigh
  <2>1. \A v \in Page : region1[v] = IF v = bootVpn THEN PAGE_TABLE_LEN + bootVpn
                                                    ELSE initPT[v]
      BY InitParts, BootVpn
  <2>2. \A v \in Page : initPT[v] = IF v < OrigBrk THEN PAGE_TABLE_LEN + v
                                                   ELSE Invalid
      BY DEF initPT
  <2> QED
      BY <2>1, <2>2, BootVpn, LowRange DEF HeapHigh
<1> QED
    BY <1>1, <1>2, <1>3, <1>4 DEF FInv

LEMMA InitNotIdleStep ==
    ASSUME FreeOwned', idle \in live', InitNotIdle,
           \/ init \in live'
           \/ region0'[init] = region0[init] /\ region0'[idle] = region0[idle]
    PROVE  InitNotIdle'
<1>1. CASE init \in live'
  <2>1. /\ idle \in Users' /\ Tables'[idle] = region0'[idle]
        /\ init \in Users' /\ Tables'[init] = region0'[init] /\ idle # init
      BY <1>1, TablesAre, Ranges
  <2> QED
      BY <2>1 DEF FreeOwned, Owned, InitNotIdle
<1>2. CASE region0'[init] = region0[init] /\ region0'[idle] = region0[idle]
    BY <1>2 DEF InitNotIdle
<1> QED
    BY <1>1, <1>2

\* The last process has exited and idle, resumed in KernelStart, loads init again.
LEMMA ReloadOwned ==
    ASSUME MemPart, FreeOwned, InitNotIdle, HeapHigh, "Malloc" \notin Ops,
           live = {idle}, UNCHANGED live, Usable(init), ReloadMemory
    PROVE  FreeOwned' /\ InitNotIdle' /\ HeapHigh'
<1> DEFINE G   == Freed(region0[init], Page \ KernelStack)
           T   == Taken(freePages \cup G, bootNeed)
           new == Loaded(freePages \cup G, region0[init], InitPages, bootStack)
           N   == Page \cap (LowPages(InitPages) \cup StackPages(bootStack))
<1>1. idle \in Proc /\ init \in Proc /\ idle # init
    BY Ranges
<1>2. LoadProgram(init, idle, InitPages, bootStack)
    BY DEF ReloadMemory, bootStack
<1>3. CASE UNCHANGED <<freePages, region0, region1>>
    BY <1>3, SameOwned DEF InitNotIdle, HeapHigh
<1>4. CASE /\ region0' = [region0 EXCEPT ![init] = new]
           /\ freePages' = (freePages \cup G) \ T
           /\ UNCHANGED region1
  <2>1. freePages \cup G \in SUBSET Frame
      BY <1>1, FreedType DEF MemPart
  <2>2. /\ Given(new, N, T)
        /\ \A v \in Page \ N : new[v] = IF v \in KernelStack
                                        THEN region0[init][v] ELSE Invalid
      BY <2>1, BootStack, Sizes, LoadedGives DEF bootNeed
  <2>3. T \subseteq freePages \cup G
      BY <2>1, TakenType
  <2>4. \A f \in G : f \in LowFrames
                        => \A w \in Page : region0[idle][w] # f
      BY DEF Freed, Mapped, InitNotIdle
  <2>5. /\ idle \in Users /\ Tables[idle] = region0[idle] /\ Users' = {idle, KERNEL}
        /\ Tables[KERNEL] = region1 /\ KERNEL \in Users
      BY <1>1, TablesAre, Ranges
  <2>6. region0'[init] = new /\ region0'[idle] = region0[idle]
      BY <1>1, <1>4 DEF MemPart
  <2>7. N \subseteq Page
      OBVIOUS
  <2> HIDE DEF G, T, new, N
  <2>8. \A w \in Users', v \in Page :
            Tables[w][v] \in LowFrames => Tables[w][v] \notin G
      BY <2>4, <2>5 DEF HeapHigh
  <2>9. freePages' \subseteq freePages \cup G
      BY <1>4
  <2>10. \A w \in live' : region0'[w] = region0[w]
      BY <2>6
  <2>11. FreeOwned'
      BY <1>4, <2>8, <2>9, <2>10, FreeingOwned
  <2>12. \A w \in Page : region0[idle][w] \in LowFrames
                            => region0[idle][w] \notin freePages
      BY <2>5 DEF FreeOwned, Owned
  <2>13. ASSUME NEW v \in Page, NEW w \in Page, new[v] \in LowFrames
         PROVE  new[v] # region0[idle][w]
    <3>1. CASE v \in N
      <4>1. new[v] \in T
          BY <2>2, <2>13, <3>1, LowRange DEF Given
      <4> QED
          BY <2>3, <2>4, <2>12, <2>13, <4>1
    <3>2. CASE v \notin N
      <4>1. new[v] = region0[init][v]
          BY <2>2, <2>13, <3>2, LowRange
      <4> QED
          BY <2>13, <4>1 DEF InitNotIdle
    <3> QED
        BY <3>1, <3>2
  <2>14. InitNotIdle'
      BY <2>6, <2>13 DEF InitNotIdle
  <2> QED
      BY <1>4, <2>11, <2>14 DEF HeapHigh
<1> QED
    BY <1>2, <1>3, <1>4 DEF LoadProgram, memVars, bootNeed

\* What a successful or failed load leaves alone.
LEMMA LoadProgramKeeps ==
    ASSUME MemPart, NEW p \in Proc, NEW who, NEW low, NEW stack,
           LoadProgram(p, who, low, stack)
    PROVE  /\ UNCHANGED <<region1, free_vpn, currKernelBrk>>
           /\ \A w \in Proc \ {p} : region0'[w] = region0[w]
  BY DEF LoadProgram, memVars, MemPart

LEMMA FInvStep ==
    ASSUME FInv, [Next]_vars, "Brk" \notin Ops, "Delay" \notin Ops,
           "Malloc" \notin Ops \/ "Idle" \notin Ops
    PROVE  FInv'
<1>1. /\ MemPart /\ HeapOK /\ next_proc_id \in 2 .. MaxPid + 1
      /\ live \subseteq Proc /\ MInv /\ IdsUsed /\ FreeOwned
      /\ InitNotIdle /\ HeapHigh
    BY TypeParts DEF FInv, MInv
<1>2. MInv'
    BY MInvStep DEF FInv
<1>3. ASSUME IdsUsed', FreeOwned', InitNotIdle', HeapHigh'
      PROVE  FInv'
    BY <1>2, <1>3 DEF FInv
<1>4. idle \in Proc /\ init \in Proc /\ idle # init
    BY Ranges
<1>5. CASE UNCHANGED vars
  <2>1. FreeOwned'
      BY <1>1, <1>5, SameOwned DEF vars, memVars
  <2>2. IdsUsed' /\ InitNotIdle' /\ HeapHigh'
      BY <1>1, <1>5 DEF vars, memVars, IdsUsed, InitNotIdle, HeapHigh
  <2> QED
      BY <1>3, <2>1, <2>2
<1>6. ASSUME NEW c \in Callers, Fork(c[1], c[2])
      PROVE  FInv'
  <2> DEFINE child == next_proc_id
             vpn == findFreeVirtualPage(region1)
  <2>1. /\ child \in Proc \ live /\ child \in Nat /\ child # init /\ child # idle
        /\ next_proc_id' = child + 1 /\ live' = live \cup {child}
        /\ ForkMemory(c[1], c[2], child)
    <3>1. child \in Nat /\ child <= MaxPid /\ ~(child < child)
        BY <1>1, <1>6, Sizes DEF Fork
    <3>2. child \in Proc
        BY <3>1 DEF Proc
    <3>3. child \notin live
        BY <1>1, <3>1 DEF IdsUsed
    <3>4. child # init /\ child # idle
        BY <1>1, <3>3, <3>1 DEF IdsUsed
    <3> QED
        BY <1>6, <3>1, <3>2, <3>3, <3>4 DEF Fork
  <2>2. c[1] \in Proc /\ c[2] \in Proc
      BY <1>1, CallerType
  <2>3. FreeOwned'
      BY <1>1, <2>1, <2>2, ForkMemoryOwned
  <2>4. IdsUsed'
    <3>1. \A p \in live : p \in Int
        BY <1>1 DEF Proc
    <3>2. init \in Int
        BY DEF init
    <3>3. \A p \in live' : p < child + 1
        BY <1>1, <2>1, <3>1 DEF IdsUsed
    <3> QED
        BY <1>1, <2>1, <3>2, <3>3 DEF IdsUsed
  <2>5. region0'[init] = region0[init] /\ region0'[idle] = region0[idle]
      BY <1>1, <1>4, <2>1 DEF ForkMemory, MemPart
  <2>6. InitNotIdle'
      BY <1>1, <2>3, <2>4, <2>5, InitNotIdleStep DEF IdsUsed
  <2>7. HeapHigh'
    <3>1. \E v \in 0 .. PAGE_TABLE_LEN - 3 : region1[v] = Invalid
        BY <2>1 DEF ForkMemory, CanFork
    <3>2. vpn \in Page
        BY <3>1, FindFreeVirtualPage
    <3>3. region1' = [region1 EXCEPT ![vpn] = PAGE_TABLE_LEN + vpn]
        BY <2>1 DEF ForkMemory, BuildRegion0
    <3> QED
        BY <1>1, <3>2, <3>3, LowRange DEF HeapHigh, MemPart
  <2> QED
      BY <1>3, <2>3, <2>4, <2>6, <2>7
<1>7. ASSUME NEW c \in Callers, Exit(c[1])
      PROVE  FInv'
  <2>1. c[1] \in live /\ c[1] # idle /\ c[1] \in Proc
      BY <1>1, CallerType
  <2>2. /\ live' = live \ {c[1]} /\ ExitMemory(c[1]) /\ UNCHANGED next_proc_id
        /\ UNCHANGED <<region0, region1>>
      BY <1>7 DEF Exit, ExitMemory
  <2>3. FreeOwned'
      BY <1>1, <2>1, <2>2, ExitMemoryOwned
  <2>4. IdsUsed' /\ HeapHigh'
      BY <1>1, <2>1, <2>2 DEF IdsUsed, HeapHigh
  <2>5. InitNotIdle'
      BY <1>1, <2>2 DEF InitNotIdle
  <2> QED
      BY <1>3, <2>3, <2>4, <2>5
<1>8. ASSUME NEW c \in Callers, Exec(c[1])
      PROVE  FInv'
  <2>1. c[1] \in live /\ c[1] # idle /\ c[1] \in Proc /\ Usable(c[1])
      BY <1>1, CallerType
  <2>2. UNCHANGED <<next_proc_id, live>>
      BY <1>8 DEF Exec
  <2>3. PICK low \in ProgramPages, stack \in ArgPages :
            LoadProgram(c[1], c[1], low, stack)
      BY <1>8 DEF Exec, ExecMemory
  <2>4. low \in Nat /\ stack \in Nat
      BY Sizes
  <2>5. FreeOwned'
      BY <1>1, <2>1, <2>2, <2>3, <2>4, LoadProgramOwned
  <2>6. UNCHANGED region1 /\ \A w \in Proc \ {c[1]} : region0'[w] = region0[w]
      BY <1>1, <2>1, <2>3, LoadProgramKeeps
  <2>7. IdsUsed' /\ HeapHigh'
      BY <1>1, <2>2, <2>6 DEF IdsUsed, HeapHigh
  <2>8. \/ init \in live'
        \/ region0'[init] = region0[init] /\ region0'[idle] = region0[idle]
      BY <1>4, <2>1, <2>2, <2>6
  <2>9. InitNotIdle'
      BY <1>1, <2>5, <2>7, <2>8, InitNotIdleStep DEF IdsUsed
  <2> QED
      BY <1>3, <2>5, <2>7, <2>9
<1>9. ASSUME NEW c \in Callers, NEW v \in Page, Grow(c[1], c[2], v)
      PROVE  FInv'
  <2>1. c[1] \in live /\ c[1] # idle /\ c[1] \in Proc /\ c[2] \in Proc
      BY <1>1, CallerType
  <2>2. UNCHANGED <<next_proc_id, live>> /\ GrowMemory(c[1], c[2], v)
      BY <1>9 DEF Grow
  <2>3. FreeOwned'
      BY <1>1, <2>1, <2>2, GrowMemoryOwned
  <2>4. UNCHANGED region1 /\ \A w \in Proc \ {c[1]} : region0'[w] = region0[w]
      BY <1>1, <2>1, <2>2 DEF GrowMemory, MemPart
  <2>5. IdsUsed' /\ HeapHigh'
      BY <1>1, <2>2, <2>4 DEF IdsUsed, HeapHigh
  <2>6. \/ init \in live'
        \/ region0'[init] = region0[init] /\ region0'[idle] = region0[idle]
      BY <1>4, <2>1, <2>2, <2>4
  <2>7. InitNotIdle'
      BY <1>1, <2>3, <2>5, <2>6, InitNotIdleStep DEF IdsUsed
  <2> QED
      BY <1>3, <2>3, <2>5, <2>7
<1>10. CASE Malloc
  <2>1. PICK n \in 1 .. PAGE_TABLE_LEN : SetKernelBrk(n)
      BY <1>10 DEF Malloc
  <2>2. UNCHANGED <<next_proc_id, live>> /\ "Malloc" \in Ops
      BY <1>10 DEF Malloc
  <2>3. FreeOwned'
      BY <1>1, <2>1, <2>2, SetKernelBrkOwned
  <2>4. IdsUsed' /\ HeapHigh'
      BY <1>1, <2>2 DEF IdsUsed, HeapHigh
  <2>5. UNCHANGED region0
      BY <2>1 DEF SetKernelBrk, memVars
  <2>6. InitNotIdle'
      BY <1>1, <2>5 DEF InitNotIdle
  <2> QED
      BY <1>3, <2>3, <2>4, <2>6
<1>11. CASE Reload
  <2>1. /\ "Idle" \in Ops /\ live = {idle} /\ Usable(init) /\ ReloadMemory
        /\ UNCHANGED <<next_proc_id, live>>
      BY <1>11 DEF Reload
  <2>2. FreeOwned' /\ InitNotIdle' /\ HeapHigh'
      BY <1>1, <2>1, ReloadOwned
  <2>3. IdsUsed'
      BY <1>1, <2>1 DEF IdsUsed
  <2> QED
      BY <1>3, <2>2, <2>3
<1>12. ASSUME NEW c \in Callers, NEW b \in Breaks, Brk(c[1], b)
       PROVE  FInv'
    BY <1>12 DEF Brk
<1> QED
    BY <1>5, <1>6, <1>7, <1>8, <1>9, <1>10, <1>11, <1>12 DEF Next

\* No sequence of forks, execs, exits, stack growth and kernel heap growth, for
\* whichever live process curr_proc is while another one runs, gives a frame
\* below those of Region 1 to two pages or frees it while it is in use.  Of the
\* frames above them it says nothing: SwitchFork may free one in use.  Brk,
\* which frees frames by page number, is left out, and so is the reload of init
\* at boot while others run (Delay), or after malloc has taken frames (Idle).
THEOREM FramesOwnedCorrect ==
    ASSUME "Brk" \notin Ops, "Delay" \notin Ops,
           "Malloc" \notin Ops \/ "Idle" \notin Ops
    PROVE  Spec => []FramesOwned
<1>1. FInv /\ [Next]_vars => FInv'
    BY FInvStep
<1>2. FInv => FramesOwned
    BY OwnedFrames DEF FInv, FreeOwned
<1> QED
    BY FInvInit, <1>1, <1>2, PTL DEF Spec

-----------------------------------------------------------------------------
(* StackInOnePiece.  The stack pointer never passes the kernel stack, so    *)
(* that a page below it which is not mapped is below the whole stack.       *)

OnePiece(t, s) ==
    /\ s \in Int /\ s <= StackLimit
    /\ \E low \in 0 .. PAGE_TABLE_LEN :
          Mapped(t) \ KernelStack = LowPages(low) \cup (s .. StackLimit - 1)

SInv == MInv /\ \A p \in live \ {idle} : OnePiece(region0[p], sp[p])

\* A program that has been loaded.
LEMMA LoadedOnePiece ==
    ASSUME NEW free \in SUBSET Frame, NEW low \in Nat, NEW stack \in Nat,
           NEW t \in [Page -> Entry], FitsVirtual(low, stack)
    PROVE  OnePiece(Loaded(free, t, low, stack), StackLimit - stack)
<1> DEFINE new == Loaded(free, t, low, stack)
           N == LowPages(low) \cup StackPages(stack)
<1>1. Mapped(new) = (Page \cap N) \cup (Mapped(t) \cap KernelStack)
    BY LoadedType
<1>2. N \subseteq Page /\ N \cap KernelStack = {}
    BY Sizes DEF FitsVirtual, LowPages, StackPages, Page, KernelStack, StackLimit
<1> HIDE DEF new
<1>3. Mapped(new) \ KernelStack = LowPages(low) \cup StackPages(stack)
    BY <1>1, <1>2
<1>4. StackLimit - stack \in Int /\ StackLimit - stack <= StackLimit
    BY Ranges
<1>5. low \in 0 .. PAGE_TABLE_LEN
    BY Sizes DEF FitsVirtual
<1> QED
    BY <1>3, <1>4, <1>5 DEF OnePiece, new, StackPages

\* A stack that has grown to a page that was not mapped.
LEMMA GrownOnePiece ==
    ASSUME MemPart, NEW p \in Proc, OnePiece(region0[p], sp[p]),
           NEW v \in Page, GrowMemory(p, p, v)
    PROVE  OnePiece(region0'[p], sp'[p])
<1> DEFINE S == v .. sp[p] - 1
           t == region0[p]
           new == Assign(freePages, t, S)
<1>1. /\ v \in Nat /\ v \in Int
      /\ sp[p] \in Int /\ sp[p] - 1 \in Int /\ StackLimit \in Nat
    BY Ranges DEF MemPart
<1>2. S \in SUBSET Int /\ IsFiniteSet(S)
  <2>1. IsFiniteSet(S)
      BY <1>1, FS_Interval
  <2>2. S \in SUBSET Int
      BY <1>1
  <2> QED
      BY <2>1, <2>2
<1>3. /\ region0' = [region0 EXCEPT ![p] = new]
      /\ sp' = [sp EXCEPT ![p] = v]
      /\ v < StackLimit /\ v \notin Mapped(t)
    BY DEF GrowMemory, MemPart
<1>4. PICK low \in 0 .. PAGE_TABLE_LEN :
          Mapped(t) \ KernelStack = LowPages(low) \cup (sp[p] .. StackLimit - 1)
    BY DEF OnePiece
<1>5. v \notin KernelStack /\ sp[p] <= StackLimit
    BY <1>1, <1>3 DEF KernelStack, OnePiece
<1>6. v \notin sp[p] .. StackLimit - 1
    BY <1>3, <1>4, <1>5
<1>7. v < sp[p]
    BY <1>1, <1>3, <1>6
<1>8. S \subseteq Page /\ S \cap KernelStack = {}
      /\ S \cup (sp[p] .. StackLimit - 1) = v .. StackLimit - 1
    BY <1>1, <1>5, <1>7, Sizes DEF Page, KernelStack, StackLimit
<1>9. t \in [Page -> Entry] /\ freePages \in SUBSET Frame
    BY DEF MemPart
<1> HIDE DEF S, t
<1>10. Mapped(new) = Mapped(t) \cup (Page \cap S)
    BY <1>2, <1>9, AssignType
<1> HIDE DEF new
<1>11. Mapped(new) \ KernelStack = LowPages(low) \cup (v .. StackLimit - 1)
    BY <1>4, <1>8, <1>10
<1>12. region0'[p] = new /\ sp'[p] = v
    BY <1>3 DEF MemPart
<1>13. v \in Int /\ v <= StackLimit
    BY <1>1, <1>3
<1> QED
    BY <1>11, <1>12, <1>13 DEF OnePiece

LEMMA SInvInit ==
    Init => SInv
<1> SUFFICES ASSUME Init
             PROVE  SInv
    OBVIOUS
<1>1. MInv
    BY MInvInit
<1>2. InitPages \in Nat /\ bootStack \in Nat /\ FitsVirtual(InitPages, bootStack)
      /\ bootFree3 \in SUBSET Frame /\ initStack \in [Page -> Entry]
    BY Sizes, BootStack, BootTables
<1>3. OnePiece(initTable, StackLimit - bootStack)
    BY <1>2, LoadedOnePiece DEF initTable
<1>4. region0[init] = initTable /\ sp[init] = StackLimit - bootStack
    BY InitParts, Ranges
<1>5. live \ {idle} = {init}
    BY InitParts, Ranges
<1> QED
    BY <1>1, <1>3, <1>4, <1>5 DEF SInv

LEMMA SInvStep ==
    ASSUME SInv, [Next]_vars, "Rotate" \notin Ops, "Delay" \notin Ops
    PROVE  SInv'
<1>1. /\ MemPart /\ HeapOK /\ next_proc_id \in 2 .. MaxPid + 1
      /\ live \subseteq Proc /\ MInv
      /\ \A p \in live \ {idle} : OnePiece(region0[p], sp[p])
    BY TypeParts DEF SInv, MInv
<1>2. MInv'
    BY MInvStep DEF SInv
<1>3. ASSUME \A p \in live' \ {idle} : OnePiece(region0'[p], sp'[p])
      PROVE  SInv'
    BY <1>2, <1>3 DEF SInv, OnePiece, Mapped
<1>4. CASE UNCHANGED vars
    BY <1>1, <1>3, <1>4 DEF vars, memVars
<1>5. ASSUME NEW c \in Callers, Fork(c[1], c[2])
      PROVE  SInv'
  <2> DEFINE child == next_proc_id
             S     == Mapped(region0[c[1]])
             vpn   == findFreeVirtualPage(region1)
             free1 == freePages \ {PAGE_TABLE_LEN + vpn}
             free2 == free1 \ Taken(free1, KERNEL_STACK_PAGES)
             new   == Assign(free2, Unmapped, S)
  <2>1. child \in Proc /\ c[1] \in live \ {idle}
      BY <1>1, <1>5, Sizes, CallerType DEF Fork, Proc
  <2>2. /\ region0' = [region0 EXCEPT ![child] = new]
        /\ sp' = [sp EXCEPT ![child] = sp[c[1]]]
        /\ live' = live \cup {child}
      BY <1>5, Zenon DEF Fork, ForkMemory
  <2>3. Mapped(new) = S
    <3>1. S \in SUBSET Page /\ IsFiniteSet(S)
        BY MappedType
    <3>2. S \in SUBSET Int
      <4>1. Page \subseteq Int
          BY Ranges
      <4> HIDE DEF S
      <4> QED
          BY <3>1, <4>1
    <3>3. free2 \in SUBSET Frame
        BY <1>1 DEF MemPart
    <3>4. Unmapped \in [Page -> Entry] /\ Mapped(Unmapped) = {}
        BY DEF Unmapped, Entry, Mapped
    <3> HIDE DEF S, free2
    <3>5. Mapped(new) = Mapped(Unmapped) \cup (Page \cap S)
        BY <3>1, <3>2, <3>3, <3>4, AssignType
    <3> QED
        BY <3>1, <3>4, <3>5
  <2>4. region0'[child] = new /\ sp'[child] = sp[c[1]]
      BY <1>1, <2>1, <2>2 DEF MemPart
  <2>5. OnePiece(region0[c[1]], sp[c[1]])
      BY <1>1, <2>1
  <2>6. OnePiece(region0'[child], sp'[child])
      BY <2>3, <2>4, <2>5 DEF OnePiece
  <2>7. \A p \in live \ {child} : region0'[p] = region0[p] /\ sp'[p] = sp[p]
      BY <1>1, <2>1, <2>2 DEF MemPart
  <2> HIDE DEF child
  <2>8. \A p \in live' \ {idle} : OnePiece(region0'[p], sp'[p])
      BY <1>1, <2>2, <2>6, <2>7
  <2> QED
      BY <1>3, <2>8
<1>6. ASSUME NEW c \in Callers, Exit(c[1])
      PROVE  SInv'
    BY <1>1, <1>3, <1>6 DEF Exit, ExitMemory
<1>7. ASSUME NEW c \in Callers, Exec(c[1])
      PROVE  SInv'
  <2>1. c[1] \in live /\ c[1] # idle /\ c[1] \in Proc /\ Usable(c[1])
      BY <1>1, CallerType
  <2>2. UNCHANGED live
      BY <1>7 DEF Exec
  <2>3. PICK low \in ProgramPages, stack \in ArgPages :
            LoadProgram(c[1], c[1], low, stack)
      BY <1>7 DEF Exec, ExecMemory
  <2>4. low \in Nat /\ stack \in Nat
      BY Sizes
  <2> DEFINE t    == region0[c[1]]
             free == freePages \cup Freed(t, Page \ KernelStack)
             new  == Loaded(free, t, low, stack)
  <2>5. CASE UNCHANGED <<region0, sp>>
      BY <1>1, <1>3, <2>2, <2>5
  <2>6. CASE /\ FitsVirtual(low, stack)
             /\ sp' = [sp EXCEPT ![c[1]] = StackLimit - stack]
             /\ region0' = [region0 EXCEPT ![c[1]] = new]
    <3>1. free \in SUBSET Frame /\ t \in [Page -> Entry]
        BY <1>1, <2>1, FreedType DEF MemPart
    <3> HIDE DEF free, t
    <3>2. OnePiece(new, StackLimit - stack)
        BY <2>4, <2>6, <3>1, LoadedOnePiece
    <3> HIDE DEF new
    <3>3. region0'[c[1]] = new /\ sp'[c[1]] = StackLimit - stack
        BY <1>1, <2>1, <2>6 DEF MemPart
    <3>4. \A p \in live \ {c[1]} : region0'[p] = region0[p] /\ sp'[p] = sp[p]
        BY <1>1, <2>1, <2>6 DEF MemPart
    <3>5. \A p \in live' \ {idle} : OnePiece(region0'[p], sp'[p])
        BY <1>1, <2>2, <3>2, <3>3, <3>4
    <3> QED
        BY <1>3, <3>5
  <2> QED
      BY <2>3, <2>5, <2>6 DEF LoadProgram, memVars
<1>8. ASSUME NEW c \in Callers, NEW v \in Page, Grow(c[1], c[2], v)
      PROVE  SInv'
  <2>1. c[1] \in live \ {idle} /\ c[1] \in Proc /\ c[2] = c[1]
      BY <1>1, CallerType
  <2>2. UNCHANGED live /\ GrowMemory(c[1], c[1], v)
      BY <1>8, <2>1 DEF Grow
  <2>3. OnePiece(region0'[c[1]], sp'[c[1]])
      BY <1>1, <2>1, <2>2, GrownOnePiece
  <2>4. \A p \in live \ {c[1]} : region0'[p] = region0[p] /\ sp'[p] = sp[p]
      BY <1>1, <2>1, <2>2 DEF GrowMemory, MemPart
  <2>5. \A p \in live' \ {idle} : OnePiece(region0'[p], sp'[p])
      BY <1>1, <2>2, <2>3, <2>4
  <2> QED
      BY <1>3, <2>5
<1>9. ASSUME NEW c \in Callers, NEW b \in Breaks, Brk(c[1], b)
      PROVE  SInv'
  <2>1. UNCHANGED <<live, sp>> /\ BrkMemory(c[1], b)
      BY <1>9 DEF Brk, BrkMemory, memVars
  <2>2. \A p \in live \ {idle} : region0'[p] = region0[p]
      BY <1>1, <2>1 DEF BrkMemory, memVars, MemPart
  <2>3. \A p \in live' \ {idle} : OnePiece(region0'[p], sp'[p])
      BY <1>1, <2>1, <2>2
  <2> QED
      BY <1>3, <2>3
<1>10. CASE Malloc
  <2>1. UNCHANGED <<live, sp, region0>>
      BY <1>10 DEF Malloc, SetKernelBrk, memVars
  <2> QED
      BY <1>1, <1>3, <2>1
<1>11. CASE Reload
  <2>1. live' = {idle}
      BY <1>11 DEF Reload
  <2> QED
      BY <1>3, <2>1
<1> QED
    BY <1>4, <1>5, <1>6, <1>7, <1>8, <1>9, <1>10, <1>11 DEF Next

\* The user memory of a process is a block at the bottom and one stack that ends
\* at the kernel stack, whatever it forks, executes and touches: each growth of
\* the stack maps the page that was touched and all between it and the stack.
\* A growth in the name of another process than the one that runs (Rotate) can
\* leave a hole, and so can the reload of init while it runs (Delay).
THEOREM StackInOnePieceCorrect ==
    ASSUME "Rotate" \notin Ops, "Delay" \notin Ops
    PROVE  Spec => []StackInOnePiece
<1>1. SInv /\ [Next]_vars => SInv'
    BY SInvStep
<1>2. SInv => StackInOnePiece
    BY DEF SInv, OnePiece, StackInOnePiece
<1> QED
    BY SInvInit, <1>1, <1>2, PTL DEF Spec

-----------------------------------------------------------------------------
(* TablesApart.  The tables are given pages of Region 1 from the top down,  *)
(* in the order of the process ids, and the kernel heap grows from below.   *)

\* The page of the table of process p.
TablePage(p) == PAGE_TABLE_LEN - 2 - p

\* The heap ends below the lowest page that a table can have.
HeapBounded == /\ OrigBrk <= MaxKernelBrk
               /\ MaxKernelBrk + MaxPid <= PAGE_TABLE_LEN - 2

Forked == 1 .. next_proc_id - 1

TablesPlaced ==
    /\ live \ {idle} \subseteq Forked
    /\ currKernelBrk <= MaxKernelBrk
    /\ \A p \in Forked : /\ free_vpn[p] = TablePage(p)
                         /\ region1[TablePage(p)] = PAGE_TABLE_LEN + TablePage(p)
    /\ \A v \in Page : currKernelBrk <= v /\ v <= TablePage(next_proc_id)
                           => region1[v] = Invalid

TInv == MInv /\ TablesPlaced

LEMMA TablePages ==
    ASSUME HeapBounded, NEW p \in 1 .. MaxPid
    PROVE  /\ TablePage(p) \in Page /\ TablePage(p) \in 0 .. PAGE_TABLE_LEN - 3
           /\ TablePage(p) >= MaxKernelBrk /\ TablePage(p) \in Nat
  BY Sizes DEF HeapBounded, TablePage, Page

\* The next process gets the page below that of the last one.
LEMMA NextTablePage ==
    ASSUME HeapBounded, MemPart, TablesPlaced, next_proc_id \in 2 .. MaxPid
    PROVE  /\ \E v \in 0 .. PAGE_TABLE_LEN - 3 : region1[v] = Invalid
           /\ findFreeVirtualPage(region1) = TablePage(next_proc_id)
<1> DEFINE n == next_proc_id
           vpn == findFreeVirtualPage(region1)
<1>1. /\ TablePage(n) \in Page /\ TablePage(n) \in 0 .. PAGE_TABLE_LEN - 3
      /\ TablePage(n) >= MaxKernelBrk /\ TablePage(n) \in Nat
    BY TablePages, Sizes
<1>2. currKernelBrk <= TablePage(n) /\ TablePage(n) <= TablePage(n)
    BY <1>1, Sizes DEF TablesPlaced, MemPart
<1>3. region1[TablePage(n)] = Invalid
    BY <1>1, <1>2 DEF TablesPlaced
<1>4. /\ vpn \in 0 .. PAGE_TABLE_LEN - 3 /\ region1[vpn] = Invalid
      /\ \A v \in 0 .. PAGE_TABLE_LEN - 3 : v > vpn => region1[v] # Invalid
    BY <1>1, <1>3, FindFreeVirtualPage
<1>5. ~(TablePage(n) > vpn)
    BY <1>1, <1>3, <1>4
<1>6. ~(vpn > TablePage(n))
  <2> SUFFICES ASSUME vpn > TablePage(n)
               PROVE  FALSE
      OBVIOUS
  <2> DEFINE p == PAGE_TABLE_LEN - 2 - vpn
  <2>1. p \in Forked /\ TablePage(p) = vpn
      BY <1>1, <1>4, Sizes DEF Forked, TablePage
  <2>2. region1[vpn] = PAGE_TABLE_LEN + vpn
    <3> HIDE DEF p
    <3> QED
        BY <2>1 DEF TablesPlaced
  <2>3. PAGE_TABLE_LEN + vpn # Invalid
      BY <1>4, Sizes DEF Invalid
  <2> QED
      BY <1>4, <2>2, <2>3
<1>7. vpn = TablePage(n)
    BY <1>1, <1>4, <1>5, <1>6, Sizes
<1> QED
    BY <1>1, <1>3, <1>7

LEMMA ForkMemoryPlaced ==
    ASSUME HeapBounded, MemPart, TablesPlaced, live \subseteq Proc,
           next_proc_id \in 2 .. MaxPid, next_proc_id' = next_proc_id + 1,
           live' = live \cup {next_proc_id}, NEW p, NEW q,
           ForkMemory(p, q, next_proc_id)
    PROVE  TablesPlaced'
<1> DEFINE n == next_proc_id
           vpn == TablePage(n)
<1>1. /\ region1' = [region1 EXCEPT ![vpn] = PAGE_TABLE_LEN + vpn]
      /\ free_vpn' = [free_vpn EXCEPT ![n] = vpn]
      /\ UNCHANGED currKernelBrk
    BY NextTablePage DEF ForkMemory, BuildRegion0
<1>2. vpn \in Page /\ vpn \in Nat /\ n \in Proc /\ n \in Nat /\ n >= 2
    BY TablePages, Sizes DEF Proc
<1>3. Forked' = Forked \cup {n} /\ Forked \subseteq Proc /\ n \notin Forked
    BY <1>2, Sizes DEF Forked, Proc
<1>4. \A r \in Forked : TablePage(r) \in Page /\ TablePage(r) # vpn
    BY <1>2, Sizes, TablePages DEF Forked, TablePage
<1>5. \A r \in Forked : /\ free_vpn'[r] = free_vpn[r]
                        /\ region1'[TablePage(r)] = region1[TablePage(r)]
    BY <1>1, <1>2, <1>3, <1>4 DEF MemPart
<1>6. free_vpn'[n] = vpn /\ region1'[vpn] = PAGE_TABLE_LEN + vpn
    BY <1>1, <1>2 DEF MemPart
<1>7. \A r \in Forked' : /\ free_vpn'[r] = TablePage(r)
                         /\ region1'[TablePage(r)] = PAGE_TABLE_LEN + TablePage(r)
    BY <1>3, <1>5, <1>6 DEF TablesPlaced
<1>8. ASSUME NEW v \in Page, currKernelBrk' <= v, v <= TablePage(n + 1)
      PROVE  region1'[v] = Invalid
  <2>1. v \in Nat /\ v <= vpn /\ v # vpn /\ currKernelBrk <= v
      BY <1>1, <1>2, <1>8, Ranges, Sizes DEF TablePage
  <2> QED
      BY <1>1, <2>1 DEF TablesPlaced, MemPart
<1>9. live' \ {idle} \subseteq Forked'
    BY <1>3 DEF TablesPlaced
<1>10. currKernelBrk' <= MaxKernelBrk
    BY <1>1 DEF TablesPlaced
<1>11. TablePage(next_proc_id)' = TablePage(n + 1)
    BY DEF TablePage
<1>12. \A v \in Page : currKernelBrk' <= v /\ v <= TablePage(next_proc_id)'
                           => region1'[v] = Invalid
    BY <1>8, <1>11
<1> QED
    BY <1>7, <1>9, <1>10, <1>12 DEF TablesPlaced, TablePage

LEMMA SetKernelBrkPlaced ==
    ASSUME HeapBounded, MemPart, TablesPlaced, next_proc_id \in 2 .. MaxPid + 1,
           UNCHANGED <<next_proc_id, live>>,
           NEW n \in 1 .. PAGE_TABLE_LEN, SetKernelBrk(n)
    PROVE  TablesPlaced'
<1> DEFINE up == currKernelBrk .. currKernelBrk + n - 1
           new == Assign(freePages, region1, up)
<1>1. CASE UNCHANGED memVars
    BY <1>1 DEF memVars, TablesPlaced, Forked, TablePage
<1>2. CASE /\ currKernelBrk + n <= MaxKernelBrk
           /\ region1' = new
           /\ currKernelBrk' = currKernelBrk + n
           /\ UNCHANGED free_vpn
  <2>1. currKernelBrk \in Nat /\ n \in Nat
      BY DEF MemPart
  <2>2. \A v \in Page \ up : new[v] = region1[v]
      BY DEF Assign
  <2>3. \A v \in Page : v >= currKernelBrk + n => v \notin up
      BY <2>1, Ranges
  <2>4. \A v \in Page : v >= currKernelBrk + n => region1'[v] = region1[v]
      BY <1>2, <2>2, <2>3
  <2> HIDE DEF up, new
  <2>5. Forked' = Forked
      BY DEF Forked
  <2>6. ASSUME NEW p \in Forked
        PROVE  region1'[TablePage(p)] = region1[TablePage(p)]
    <3>1. p \in 1 .. MaxPid
        BY Sizes DEF Forked
    <3>2. TablePage(p) \in Page /\ TablePage(p) \in Nat /\ TablePage(p) >= MaxKernelBrk
        BY <3>1, TablePages
    <3>3. TablePage(p) >= currKernelBrk + n
        BY <1>2, <2>1, <3>2, Sizes
    <3> QED
        BY <2>4, <3>2, <3>3
  <2>7. ASSUME NEW v \in Page, currKernelBrk' <= v, v <= TablePage(next_proc_id)
        PROVE  region1'[v] = Invalid
    <3>1. v \in Nat /\ v >= currKernelBrk + n /\ currKernelBrk <= v
        BY <1>2, <2>1, <2>7, Ranges
    <3> QED
        BY <2>4, <2>7, <3>1 DEF TablesPlaced
  <2>8. TablePage(next_proc_id)' = TablePage(next_proc_id)
      BY DEF TablePage
  <2>9. \A v \in Page : currKernelBrk' <= v /\ v <= TablePage(next_proc_id)'
                           => region1'[v] = Invalid
      BY <2>7, <2>8
  <2>10. \A p \in Forked' : /\ free_vpn'[p] = TablePage(p)
                            /\ region1'[TablePage(p)] = PAGE_TABLE_LEN + TablePage(p)
      BY <1>2, <2>5, <2>6 DEF TablesPlaced
  <2>11. live' \ {idle} \subseteq Forked' /\ currKernelBrk' <= MaxKernelBrk
      BY <1>2, <2>5 DEF TablesPlaced
  <2> QED
      BY <2>9, <2>10, <2>11 DEF TablesPlaced, TablePage
<1> QED
    BY <1>1, <1>2 DEF SetKernelBrk

\* The other operations do not touch Region 1.
LEMMA SamePlaced ==
    ASSUME TablesPlaced, UNCHANGED <<next_proc_id, region1, free_vpn, currKernelBrk>>,
           live' \subseteq live
    PROVE  TablesPlaced'
  BY DEF TablesPlaced, Forked, TablePage

LEMMA TInvInit ==
    ASSUME HeapBounded
    PROVE  Init => TInv
<1> SUFFICES ASSUME Init
             PROVE  TInv
    OBVIOUS
<1>1. MInv
    BY MInvInit
<1>2. next_proc_id = 2 /\ live = {idle, init} /\ currKernelBrk = OrigBrk
    BY InitParts
<1>3. Forked = {1} /\ live \ {idle} = {1} /\ 1 \in Proc /\ init = 1
    BY <1>2, Sizes DEF Forked, idle, init, Proc
<1>4. TablePage(1) = bootVpn /\ TablePage(2) = bootVpn - 1
    BY BootVpn, Sizes DEF TablePage
<1>5. free_vpn[1] = bootVpn
    BY <1>3, InitParts
<1>6. \A v \in Page : region1[v] = IF v = bootVpn THEN PAGE_TABLE_LEN + bootVpn
                                                  ELSE initPT[v]
    BY InitParts, BootVpn
<1>7. ASSUME NEW v \in Page, currKernelBrk <= v, v <= TablePage(next_proc_id)
      PROVE  region1[v] = Invalid
  <2>1. v \in Nat /\ bootVpn \in Nat
      BY Ranges, BootVpn
  <2>2. v # bootVpn /\ ~(v < OrigBrk)
      BY <1>2, <1>4, <1>7, <2>1, Sizes
  <2>3. initPT[v] = Invalid
      BY <2>2 DEF initPT
  <2> QED
      BY <1>6, <2>2, <2>3
<1>8. TablesPlaced
    BY <1>2, <1>3, <1>4, <1>5, <1>6, <1>7, BootVpn DEF TablesPlaced, HeapBounded
<1> QED
    BY <1>1, <1>8 DEF TInv

LEMMA TInvStep ==
    ASSUME HeapBounded, TInv, [Next]_vars
    PROVE  TInv'
<1>1. /\ MemPart /\ next_proc_id \in 2 .. MaxPid + 1
      /\ live \subseteq Proc /\ MInv /\ TablesPlaced
    BY TypeParts DEF TInv, MInv
<1>2. MInv'
    BY MInvStep DEF TInv
<1>3. CASE UNCHANGED vars
    BY <1>1, <1>3, SamePlaced, <1>2 DEF vars, memVars, TInv
<1>4. ASSUME NEW c \in Callers, Fork(c[1], c[2])
      PROVE  TInv'
  <2>1. /\ next_proc_id \in 2 .. MaxPid /\ next_proc_id' = next_proc_id + 1
        /\ live' = live \cup {next_proc_id}
        /\ ForkMemory(c[1], c[2], next_proc_id)
      BY <1>1, <1>4, Sizes DEF Fork
  <2>2. TablesPlaced'
      BY <1>1, <2>1, ForkMemoryPlaced
  <2> QED
      BY <1>2, <2>2 DEF TInv
<1>5. ASSUME NEW c \in Callers, Exit(c[1])
      PROVE  TInv'
  <2>1. /\ UNCHANGED <<next_proc_id, region1, free_vpn, currKernelBrk>>
        /\ live' \subseteq live
      BY <1>5 DEF Exit, ExitMemory
  <2> QED
      BY <1>1, <1>2, <2>1, SamePlaced DEF TInv
<1>6. ASSUME NEW c \in Callers, Exec(c[1])
      PROVE  TInv'
  <2>1. PICK low \in ProgramPages, stack \in ArgPages :
            LoadProgram(c[1], c[1], low, stack)
      BY <1>6 DEF Exec, ExecMemory
  <2>2. c[1] \in Proc
      BY <1>1, CallerType
  <2>3. UNCHANGED <<region1, free_vpn, currKernelBrk>>
      BY <1>1, <2>1, <2>2, LoadProgramKeeps
  <2>4. UNCHANGED <<next_proc_id, live>>
      BY <1>6 DEF Exec
  <2> QED
      BY <1>1, <1>2, <2>3, <2>4, SamePlaced DEF TInv
<1>7. ASSUME NEW c \in Callers, NEW v \in Page, Grow(c[1], c[2], v)
      PROVE  TInv'
  <2>1. UNCHANGED <<next_proc_id, region1, free_vpn, currKernelBrk, live>>
      BY <1>7 DEF Grow, GrowMemory
  <2> QED
      BY <1>1, <1>2, <2>1, SamePlaced DEF TInv
<1>8. ASSUME NEW c \in Callers, NEW b \in Breaks, Brk(c[1], b)
      PROVE  TInv'
  <2>1. UNCHANGED <<next_proc_id, region1, free_vpn, currKernelBrk, live>>
      BY <1>8 DEF Brk, BrkMemory, memVars
  <2> QED
      BY <1>1, <1>2, <2>1, SamePlaced DEF TInv
<1>9. CASE Malloc
  <2>1. TablesPlaced'
      BY <1>1, <1>9, SetKernelBrkPlaced DEF Malloc
  <2> QED
      BY <1>2, <2>1 DEF TInv
<1>10. CASE Reload
  <2>1. init \in Proc /\ LoadProgram(init, idle, InitPages, bootStack)
      BY <1>10, Ranges DEF Reload, ReloadMemory, bootStack
  <2>2. UNCHANGED <<region1, free_vpn, currKernelBrk>>
      BY <1>1, <2>1, LoadProgramKeeps
  <2>3. UNCHANGED <<next_proc_id, live>>
      BY <1>10 DEF Reload
  <2> QED
      BY <1>1, <1>2, <2>2, <2>3, SamePlaced DEF TInv
<1> QED
    BY <1>3, <1>4, <1>5, <1>6, <1>7, <1>8, <1>9, <1>10 DEF Next

LEMMA PlacedApart ==
    ASSUME HeapBounded, MemPart, TablesPlaced, next_proc_id \in 2 .. MaxPid + 1
    PROVE  TablesApart
<1> SUFFICES ASSUME NEW p \in live \ {idle}
             PROVE  /\ region1[free_vpn[p]] = PAGE_TABLE_LEN + free_vpn[p]
                    /\ free_vpn[p] >= currKernelBrk
                    /\ \A q \in live \ {idle, p} : free_vpn[q] # free_vpn[p]
    BY DEF TablesApart
<1>1. p \in Forked /\ free_vpn[p] = TablePage(p)
    BY DEF TablesPlaced
<1>2. Forked \subseteq 1 .. MaxPid
    BY Sizes DEF Forked
<1>3. TablePage(p) >= MaxKernelBrk /\ TablePage(p) \in Nat
    BY <1>1, <1>2, TablePages
<1>4. TablePage(p) >= currKernelBrk
    BY <1>3, Sizes DEF TablesPlaced, MemPart
<1>5. ASSUME NEW q \in live \ {idle, p}
      PROVE  free_vpn[q] # free_vpn[p]
  <2>1. q \in Forked /\ free_vpn[q] = TablePage(q)
      BY DEF TablesPlaced
  <2>2. TablePage(q) # TablePage(p)
      BY <1>1, <1>2, <2>1, Sizes DEF TablePage
  <2> QED
      BY <1>1, <2>1, <2>2
<1> QED
    BY <1>1, <1>4, <1>5 DEF TablesPlaced

\* As long as the kernel heap and the tables of all the processes ever created
\* fit in Region 1, no operation, the reload of init and every Brk within
\* region0Pt included, maps anything over the page of a table, and no two
\* processes share one.  Nothing in SetKernelBrk or BuildRegion0 checks that
\* they fit: HeapBounded is the condition under which the check can be missing.
\* A Brk past the end of region0Pt is not a step of Memory: what it overwrites is
\* undefined.
THEOREM TablesApartCorrect ==
    ASSUME HeapBounded
    PROVE  Spec => []TablesApart
<1>1. Init => TInv
    BY TInvInit
<1>2. TInv /\ [Next]_vars => TInv'
    BY TInvStep
<1>3. TInv => TablesApart
    BY PlacedApart, TypeParts DEF TInv, MInv
<1> QED
    BY <1>1, <1>2, <1>3, PTL DEF Spec

-----------------------------------------------------------------------------
(* Accounts: how many frames an operation takes, and where they go.         *)

\* n calls of findFreePage take n frames, or all that are free.
LEMMA TakenCount ==
    ASSUME NEW free \in SUBSET Frame, NEW n \in Nat
    PROVE  Cardinality(Taken(free, n)) = IF n <= Cardinality(free) THEN n
                                         ELSE Cardinality(free)
<1> DEFINE m == IF n <= Cardinality(free) THEN n ELSE Cardinality(free)
           T == Taken(free, n)
           r == [f \in T |-> Rank(free, f) + 1]
<1>1. Cardinality(free) \in Nat
    BY FrameSets
<1>2. m \in Nat /\ m <= n /\ m <= Cardinality(free)
    BY <1>1
<1>3. \A f \in free : /\ Rank(free, f) \in Nat /\ Rank(free, f) < Cardinality(free)
                      /\ f \in T <=> Rank(free, f) < n
    BY RankType DEF Taken
<1>4. T \subseteq free /\ IsFiniteSet(T)
  <2>1. T \subseteq free
      BY DEF Taken
  <2> QED
      BY <2>1, FrameSets
<1>5. \A f \in free : f \in T => Rank(free, f) + 1 \in 1 .. m
    BY <1>1, <1>3
<1>6. r \in [T -> 1 .. m]
    BY <1>4, <1>5
<1>7. \A f, g \in T : r[f] = r[g] => f = g
  <2>1. \A f, g \in T : r[f] = r[g] => Rank(free, f) = Rank(free, g)
    <3>1. \A f \in T : Rank(free, f) \in Nat /\ r[f] = Rank(free, f) + 1
        BY <1>3, <1>4
    <3> HIDE DEF r, T
    <3> QED
        BY <3>1
  <2> HIDE DEF r, T
  <2> QED
      BY <1>4, <2>1, RankInjective
<1>8. ASSUME NEW k \in 1 .. m
      PROVE  \E f \in T : r[f] = k
  <2>1. k - 1 \in Nat /\ k - 1 < Cardinality(free) /\ k - 1 < n /\ (k - 1) + 1 = k
      BY <1>1, <1>2
  <2>2. PICK f \in free : Rank(free, f) = k - 1
      BY <2>1, RankOnto
  <2>3. f \in T
      BY <1>3, <2>1, <2>2
  <2> QED
      BY <2>1, <2>2, <2>3
<1> HIDE DEF r, T, m
<1>9. Cardinality(1 .. m) = Cardinality(T)
    BY <1>4, <1>6, <1>7, <1>8, SameNumber
<1>10. Cardinality(1 .. m) = m
    BY <1>2, UpTo
<1> QED
    BY <1>9, <1>10 DEF T, m

\* Every frame that is taken is the result of a call.
LEMMA TakenFound ==
    ASSUME NEW free \in SUBSET Frame, NEW n \in Nat, NEW f \in Taken(free, n)
    PROVE  \E k \in 1 .. n : findFreePage(free, k) = f
<1>1. f \in free /\ Rank(free, f) \in Nat /\ Rank(free, f) < n
      /\ Rank(free, f) < Cardinality(free) /\ Cardinality(free) \in Nat
    BY RankType, FrameSets DEF Taken
<1>2. PICK k \in Nat \ {0} : k = Rank(free, f) + 1
    BY <1>1
<1>3. k \in 1 .. n /\ k <= Cardinality(free) /\ ~(k > Cardinality(free))
    BY <1>1, <1>2
<1>4. findFreePage(free, k) \in free /\ Rank(free, findFreePage(free, k)) = k - 1
    BY <1>3, FindFreePage
<1>5. Rank(free, findFreePage(free, k)) = Rank(free, f)
    BY <1>1, <1>2, <1>4
<1>6. findFreePage(free, k) = f
    BY <1>1, <1>4, <1>5, RankInjective
<1> QED
    BY <1>3, <1>6

\* The pages N of t hold all of T.
Holds(t, N, T) == \A f \in T : \E v \in N : t[v] = f

LEMMA AssignHolds ==
    ASSUME NEW free \in SUBSET Frame, NEW S \in SUBSET Page, NEW t
    PROVE  Holds(Assign(free, t, S), S, Taken(free, Cardinality(S)))
<1> DEFINE new == Assign(free, t, S)
<1>1. S \in SUBSET Int /\ IsFiniteSet(S) /\ Cardinality(S) \in Nat
  <2>1. S \in SUBSET Frame /\ S \in SUBSET Int
      BY Ranges
  <2> QED
      BY <2>1, FrameSets
<1>2. \A v \in S : new[v] = findFreePage(free, Count(S, v))
    BY DEF Assign, Count
<1> HIDE DEF new
<1>3. ASSUME NEW f \in Taken(free, Cardinality(S))
      PROVE  \E v \in S : new[v] = f
  <2>1. PICK k \in 1 .. Cardinality(S) : findFreePage(free, k) = f
      BY <1>1, TakenFound
  <2>2. PICK v \in S : Count(S, v) = k
      BY <1>1, CountOnto
  <2> QED
      BY <1>2, <2>1, <2>2
<1> QED
    BY <1>3 DEF Holds, new

LEMMA LoadedHolds ==
    ASSUME NEW free \in SUBSET Frame, NEW low \in Nat, NEW stack \in Nat, NEW t,
           FitsVirtual(low, stack)
    PROVE  /\ LowPages(low) \cup StackPages(stack) \in SUBSET (Page \ KernelStack)
           /\ Holds(Loaded(free, t, low, stack),
                    LowPages(low) \cup StackPages(stack), Taken(free, low + stack))
<1> DEFINE new == Loaded(free, t, low, stack)
           N == LowPages(low) \cup StackPages(stack)
<1>1. N \in SUBSET (Page \ KernelStack)
    BY Sizes DEF FitsVirtual, LowPages, StackPages, Page, KernelStack, StackLimit
<1>2. ASSUME NEW k \in 1 .. low
      PROVE  \E v \in N : new[v] = findFreePage(free, k)
  <2>1. MEM_INVALID_PAGES + k - 1 \in LowPages(low)
        /\ (MEM_INVALID_PAGES + k - 1) - MEM_INVALID_PAGES + 1 = k
      BY Sizes DEF LowPages
  <2>2. MEM_INVALID_PAGES + k - 1 \in N /\ MEM_INVALID_PAGES + k - 1 \in Page
      BY <1>1, <2>1
  <2>3. new[MEM_INVALID_PAGES + k - 1] = findFreePage(free, k)
      BY <2>1, <2>2 DEF Loaded
  <2> QED
      BY <2>2, <2>3
<1>3. ASSUME NEW k \in low + 1 .. low + stack
      PROVE  \E v \in N : new[v] = findFreePage(free, k)
  <2>1. PICK v \in Int : v = StackLimit - (k - low)
      BY Ranges
  <2>2. v \in StackPages(stack) /\ low + StackLimit - v = k
      BY <2>1, Ranges DEF StackPages
  <2>3. v \notin LowPages(low)
      BY <2>1, Sizes DEF FitsVirtual, LowPages, StackLimit
  <2>4. v \in N /\ v \in Page
      BY <1>1, <2>2
  <2>5. new[v] = findFreePage(free, k)
      BY <2>2, <2>3, <2>4 DEF Loaded
  <2> QED
      BY <2>4, <2>5
<1> HIDE DEF new, N
<1>4. ASSUME NEW f \in Taken(free, low + stack)
      PROVE  \E v \in N : new[v] = f
  <2>1. PICK k \in 1 .. low + stack : findFreePage(free, k) = f
      BY TakenFound
  <2>2. k \in 1 .. low \/ k \in low + 1 .. low + stack
      OBVIOUS
  <2> QED
      BY <1>2, <1>3, <2>1, <2>2
<1> QED
    BY <1>1, <1>4 DEF Holds, new, N

\* The pages of a table that have a frame.
Held(t) == {v \in Page : t[v] \in Frame}

LEMMA PageSets ==
    ASSUME NEW S \in SUBSET Page
    PROVE  IsFiniteSet(S) /\ Cardinality(S) \in Nat
  BY Ranges, FrameSets

\* As many pages of N have a frame as frames were taken.
LEMMA GivenCount ==
    ASSUME NEW T \in SUBSET Frame, NEW N \in SUBSET Page, NEW t,
           Given(t, N, T), Holds(t, N, T)
    PROVE  Cardinality(N \cap Held(t)) = Cardinality(T)
<1> DEFINE H == N \cap Held(t)
           r == [v \in H |-> t[v]]
<1>1. H \in SUBSET Page /\ IsFiniteSet(H)
    BY PageSets
<1>2. \A v \in H : t[v] \in T
    BY Ranges DEF Given, Held
<1>3. \A v, w \in H : t[v] = t[w] => v = w
    BY Ranges DEF Given, Held
<1>4. \A f \in T : \E v \in H : t[v] = f
    BY DEF Holds, Held
<1> HIDE DEF H
<1>5. r \in [H -> T]
    BY <1>2
<1>6. /\ \A v, w \in H : r[v] = r[w] => v = w
      /\ \A f \in T : \E v \in H : r[v] = f
    BY <1>3, <1>4
<1> HIDE DEF r
<1> QED
    BY <1>1, <1>5, <1>6, SameNumber DEF H

\* The pages with a frame in the tables of U.
Pairs(U, tab) == {x \in U \X Page : tab[x[1]][x[2]] \in Frame}

LEMMA PairsSplit ==
    ASSUME NEW U \in SUBSET Proc, NEW u \in U, NEW tab
    PROVE  /\ Cardinality(Pairs(U, tab))
                = Cardinality(Pairs(U \ {u}, tab)) + Cardinality(Held(tab[u]))
           /\ Cardinality(Pairs(U \ {u}, tab)) \in Nat
           /\ Cardinality(Held(tab[u])) \in Nat
<1> DEFINE A == Pairs(U \ {u}, tab)
           B == Pairs({u}, tab)
           H == Held(tab[u])
           r == [v \in H |-> <<u, v>>]
<1>1. IsFiniteSet(Proc \X Page)
  <2>1. IsFiniteSet(0 .. MaxPid)
    <3>1. 0 \in Int /\ MaxPid \in Int
        BY Sizes
    <3> QED
        BY <3>1, FS_Interval
  <2>2. IsFiniteSet(Page)
      BY PageSets
  <2> QED
      BY <2>1, <2>2, FS_Product DEF Proc
<1>2. A \in SUBSET (Proc \X Page) /\ B \in SUBSET (Proc \X Page)
    BY DEF Pairs
<1>3. IsFiniteSet(A) /\ IsFiniteSet(B)
    BY <1>1, <1>2, FS_Subset
<1>4. Pairs(U, tab) = A \cup B /\ A \cap B = {}
    BY DEF Pairs
<1>5. H \in SUBSET Page /\ IsFiniteSet(H) /\ Cardinality(H) \in Nat
    BY PageSets DEF Held
<1>6. r \in [H -> B]
    BY <1>5 DEF Pairs, Held
<1>7. \A v, w \in H : r[v] = r[w] => v = w
    OBVIOUS
<1>8. ASSUME NEW x \in B
      PROVE  \E v \in H : r[v] = x
  <2>1. x \in {u} \X Page /\ tab[x[1]][x[2]] \in Frame
      BY DEF Pairs
  <2>2. x[1] = u /\ x[2] \in H /\ x = <<u, x[2]>>
      BY <2>1 DEF Held
  <2> QED
      BY <2>2
<1> HIDE DEF A, B, H, r
<1>9. Cardinality(B) = Cardinality(H)
    BY <1>5, <1>6, <1>7, <1>8, SameNumber
<1>10. Cardinality(A \cup B) = Cardinality(A) + Cardinality(B)
    BY <1>3, <1>4, CountUnion
<1>11. Cardinality(A) \in Nat
    BY <1>3, FS_CardinalityType
<1> QED
    BY <1>4, <1>5, <1>9, <1>10, <1>11 DEF A, H

LEMMA PairsSame ==
    ASSUME NEW U, NEW tab, NEW tab2, \A u \in U : tab2[u] = tab[u]
    PROVE  Pairs(U, tab2) = Pairs(U, tab)
<1>1. \A x \in U \X Page : tab2[x[1]][x[2]] = tab[x[1]][x[2]]
    OBVIOUS
<1> QED
    BY <1>1 DEF Pairs

\* The frames that are lost: neither free nor in any table.
LostFrames ==
    {f \in LowFrames \ freePages : /\ \A v \in Page : region1[v] # f
                                   /\ \A u \in live, v \in Page : region0[u][v] # f}

LEMMA LostAre ==
    ASSUME live \subseteq Proc
    PROVE  {f \in LowFrames \ freePages : UsesOf(f) = {}} = LostFrames
<1>1. \A u \in live : u # KERNEL
    BY Ranges
<1>2. ASSUME NEW f
      PROVE  UsesOf(f) = {} <=> /\ \A v \in Page : region1[v] # f
                                /\ \A u \in live, v \in Page : region0[u][v] # f
  <2>1. UsesOf(f) = {} <=> \A u \in Users, v \in Page : TableOf(u)[v] # f
    <3>1. UsesOf(f) = {} <=> \A x \in Users \X Page : TableOf(x[1])[x[2]] # f
        BY DEF UsesOf
    <3>2. (\A x \in Users \X Page : TableOf(x[1])[x[2]] # f)
              => \A u \in Users, v \in Page : TableOf(u)[v] # f
      <4> SUFFICES ASSUME \A x \in Users \X Page : TableOf(x[1])[x[2]] # f,
                          NEW u \in Users, NEW v \in Page
                   PROVE  TableOf(u)[v] # f
          OBVIOUS
      <4>1. PICK x \in Users \X Page : x[1] = u /\ x[2] = v
        <5>1. <<u, v>> \in Users \X Page /\ <<u, v>>[1] = u /\ <<u, v>>[2] = v
            OBVIOUS
        <5> QED
            BY <5>1
      <4> QED
          BY <4>1
    <3>3. (\A u \in Users, v \in Page : TableOf(u)[v] # f)
              => \A x \in Users \X Page : TableOf(x[1])[x[2]] # f
      <4>1. \A x \in Users \X Page : x[1] \in Users /\ x[2] \in Page
          OBVIOUS
      <4> QED
          BY <4>1
    <3> QED
        BY <3>1, <3>2, <3>3
  <2> QED
      BY <1>1, <2>1 DEF Users, TableOf
<1> QED
    BY <1>2 DEF LostFrames

LEMMA LostFinite == IsFiniteSet(LostFrames) /\ Cardinality(LostFrames) \in Nat
<1>1. LostFrames \in SUBSET Frame
    BY LowRange DEF LostFrames
<1> QED
    BY <1>1, FrameSets

\* The pages by which the kernel heap has grown.
HeapPages == {v \in OrigBrk .. currKernelBrk - 1 : region1[v] \in Frame}

\* The kernel heap only grows, and above it are no frames but those of tables.
HeapLow ==
    /\ OrigBrk <= currKernelBrk
    /\ \A v \in Page : v >= currKernelBrk => region1[v] \notin LowFrames

\* Fork loses the frames of a kernel stack and no others.
LEMMA ForkMemoryAccount ==
    ASSUME MemPart, HeapOK, HeapLow, live \subseteq Proc, NEW p \in Proc,
           NEW q \in Proc, NEW c \in Proc \ live, live' = live \cup {c},
           ForkMemory(p, q, c)
    PROVE  /\ Cardinality(Held(region0'[c])) = Cardinality(Mapped(region0[p]))
           /\ \A u \in live : region0'[u] = region0[u]
           /\ HeapLow' /\ HeapPages' = HeapPages
           /\ \E X : /\ IsFiniteSet(X) /\ Cardinality(X) = KERNEL_STACK_PAGES
                     /\ LostFrames' \subseteq LostFrames \cup X
<1> DEFINE S     == Mapped(region0[p])
           vpn   == findFreeVirtualPage(region1)
           free1 == freePages \ {PAGE_TABLE_LEN + vpn}
           X     == Taken(free1, KERNEL_STACK_PAGES)
           free2 == free1 \ X
           T     == Taken(free2, Cardinality(S))
           new   == Assign(free2, Unmapped, S)
<1>1. /\ CanFork(p, q) /\ region1' = [region1 EXCEPT ![vpn] = PAGE_TABLE_LEN + vpn]
      /\ region0' = [region0 EXCEPT ![c] = new]
      /\ free2 \ T \subseteq freePages' /\ currKernelBrk' = currKernelBrk
    BY DEF ForkMemory, BuildRegion0
<1>2. vpn \in Page /\ region1[vpn] = Invalid
  <2>1. \E v \in 0 .. PAGE_TABLE_LEN - 3 : region1[v] = Invalid
      BY <1>1 DEF CanFork
  <2> QED
      BY <2>1, FindFreeVirtualPage
<1>3. vpn >= currKernelBrk /\ vpn \in Int /\ currKernelBrk \in Int
  <2> HIDE DEF vpn
  <2>1. vpn \in Int
      BY <1>2, Ranges
  <2>2. currKernelBrk \in Int
      BY Sizes DEF MemPart
  <2> QED
      BY <1>2, <2>1, <2>2 DEF HeapOK
<1>4. /\ freePages \in SUBSET Frame /\ free1 \in SUBSET Frame
      /\ free2 \in SUBSET Frame
    BY DEF MemPart
<1>5. /\ S \in SUBSET Page /\ Cardinality(S) \in Nat /\ IsFiniteSet(S)
      /\ S \in SUBSET Int
  <2> HIDE DEF S
  <2>1. S \in SUBSET Page
      BY MappedType DEF S
  <2>2. Page \subseteq Int
      BY Ranges
  <2> QED
      BY <2>1, <2>2, PageSets
<1>6. KERNEL_STACK_PAGES + Cardinality(S) <= Cardinality(free1)
    BY <1>1 DEF CanFork
<1> HIDE DEF S, vpn, free1, free2, X, T, new
<1>7. IsFiniteSet(free1) /\ Cardinality(free1) \in Nat /\ KERNEL_STACK_PAGES \in Nat
    BY <1>4, FrameSets, Sizes
<1>8. /\ X \in SUBSET free1 /\ IsFiniteSet(X)
      /\ Cardinality(X) = KERNEL_STACK_PAGES
  <2>1. X \in SUBSET free1
      BY <1>4, TakenType DEF X
  <2>2. Cardinality(X) = IF KERNEL_STACK_PAGES <= Cardinality(free1)
                         THEN KERNEL_STACK_PAGES ELSE Cardinality(free1)
      BY <1>4, <1>7, TakenCount DEF X
  <2>3. KERNEL_STACK_PAGES <= Cardinality(free1)
      BY <1>5, <1>6, <1>7
  <2> QED
      BY <1>7, <2>1, <2>2, <2>3, FS_Subset
<1>9. Cardinality(free2) = Cardinality(free1) - KERNEL_STACK_PAGES
  <2>1. Cardinality(free1 \ X) = Cardinality(free1) - Cardinality(free1 \cap X)
      BY <1>7, FS_Difference
  <2>2. free1 \cap X = X
      BY <1>8
  <2> QED
      BY <1>8, <2>1, <2>2 DEF free2
<1>10. T \in SUBSET Frame /\ Cardinality(T) = Cardinality(S)
  <2>1. T \in SUBSET Frame
      BY <1>4, TakenType DEF T
  <2>2. Cardinality(T) = IF Cardinality(S) <= Cardinality(free2)
                         THEN Cardinality(S) ELSE Cardinality(free2)
      BY <1>4, <1>5, TakenCount DEF T
  <2>3. Cardinality(S) <= Cardinality(free2)
      BY <1>5, <1>6, <1>7, <1>9
  <2> QED
      BY <2>1, <2>2, <2>3
<1>11. /\ Given(new, Page \cap S, T) /\ \A v \in Page \ S : new[v] = Unmapped[v]
    BY <1>4, <1>5, AssignGives DEF new, T
<1>12. Holds(new, S, T)
    BY <1>4, <1>5, AssignHolds DEF new, T
<1>13. Given(new, S, T) /\ \A v \in Page \ S : new[v] = Invalid
  <2>1. Page \cap S = S
      BY <1>5
  <2> QED
      BY <1>11, <2>1 DEF Unmapped
<1>14. Cardinality(S \cap Held(new)) = Cardinality(T)
    BY <1>5, <1>10, <1>12, <1>13, GivenCount
<1>15. S \cap Held(new) = Held(new)
    BY <1>13, Ranges DEF Held
<1>16. region0'[c] = new /\ \A u \in live : region0'[u] = region0[u]
    BY <1>1 DEF MemPart
<1>17. Cardinality(Held(region0'[c])) = Cardinality(S)
    BY <1>10, <1>14, <1>15, <1>16
<1>18. /\ region1'[vpn] = PAGE_TABLE_LEN + vpn
       /\ \A v \in Page : v # vpn => region1'[v] = region1[v]
    BY <1>1, <1>2 DEF MemPart
<1>19. HeapLow'
    BY <1>1, <1>18, <1>2, LowRange DEF HeapLow
<1>20. HeapPages' = HeapPages
  <2>1. \A v \in OrigBrk .. currKernelBrk - 1 : v \in Page /\ v # vpn
      BY <1>3, Sizes DEF MemPart, Page
  <2>2. \A v \in OrigBrk .. currKernelBrk - 1 : region1'[v] = region1[v]
      BY <1>18, <2>1
  <2> QED
      BY <1>1, <2>2 DEF HeapPages
<1>21. ASSUME NEW f \in LostFrames', f \notin X
       PROVE  f \in LostFrames
  <2>1. /\ f \in LowFrames /\ f \notin freePages'
        /\ \A v \in Page : region1'[v] # f
        /\ \A u \in live', v \in Page : region0'[u][v] # f
      BY <1>21 DEF LostFrames
  <2>2. \A v \in Page : new[v] # f
      BY <1>16, <2>1
  <2>3. f \notin T
      BY <1>5, <1>12, <2>2 DEF Holds
  <2>4. f # PAGE_TABLE_LEN + vpn
      BY <1>2, <2>1, LowRange
  <2>5. f \notin freePages
      BY <1>1, <1>21, <2>1, <2>3, <2>4 DEF free1, free2
  <2>6. \A v \in Page : region1[v] # f
      BY <1>2, <1>18, <2>1, LowRange
  <2>7. \A u \in live, v \in Page : region0[u][v] # f
      BY <1>16, <2>1
  <2> QED
      BY <2>1, <2>5, <2>6, <2>7 DEF LostFrames
<1>22. LostFrames' \subseteq LostFrames \cup X
    BY <1>21
<1> QED
    BY <1>8, <1>16, <1>17, <1>19, <1>20, <1>22 DEF S

\* Exit gives back all that the process has.
LEMMA ExitMemoryAccount ==
    ASSUME MemPart, NEW p \in live, live \subseteq Proc, Usable(p),
           live' = live \ {p}, ExitMemory(p)
    PROVE  /\ num_free_pages' = num_free_pages + Cardinality(Held(region0[p]))
           /\ region0' = region0
           /\ UNCHANGED <<region1, currKernelBrk>>
           /\ LostFrames' \subseteq LostFrames
<1>1. /\ freePages' = freePages \cup Freed(region0[p], Page)
      /\ num_free_pages' = num_free_pages + Cardinality(Mapped(region0[p]))
      /\ region0' = region0 /\ UNCHANGED <<region1, currKernelBrk>>
    BY DEF ExitMemory
<1>2. Mapped(region0[p]) = Held(region0[p])
  <2>1. \A v \in Page : region0[p][v] \in Entry
      BY DEF MemPart
  <2>2. \A v \in Page : region0[p][v] # Invalid <=> region0[p][v] \in Frame
      BY <2>1, Ranges DEF Usable, Entry
  <2> QED
      BY <2>2 DEF Mapped, Held
<1>3. ASSUME NEW f \in LostFrames'
      PROVE  f \in LostFrames
  <2>1. /\ f \in LowFrames /\ f \notin freePages'
        /\ \A v \in Page : region1'[v] # f
        /\ \A u \in live', v \in Page : region0'[u][v] # f
      BY <1>3 DEF LostFrames
  <2>2. \A v \in Page : region0[p][v] # f
    <3>1. f \notin Freed(region0[p], Page) /\ f # Invalid
        BY <1>1, <2>1, LowRange
    <3> QED
        BY <3>1 DEF Freed, Mapped
  <2> QED
      BY <1>1, <2>1, <2>2 DEF LostFrames
<1> QED
    BY <1>1, <1>2, <1>3

\* One table, that of p, has got the frames T in the pages N, which did not hold
\* any frame that is not given back.
Refilled(p, N, T) ==
    /\ T \in SUBSET Frame /\ N \in SUBSET Page
    /\ Given(region0'[p], N, T) /\ Holds(region0'[p], N, T)
    /\ \A v \in Page \ N :
          \/ region0'[p][v] = region0[p][v]
          \/ /\ region0'[p][v] = Invalid
             /\ region0[p][v] \in freePages' \cup T \cup {Invalid}
    /\ \A v \in N : region0[p][v] \in freePages' \cup T \cup {Invalid}
    /\ \A u \in live \ {p} : region0'[u] = region0[u]
    /\ freePages \subseteq freePages' \cup T
    /\ UNCHANGED <<region1, live>>

LEMMA RefilledLost ==
    ASSUME NEW p \in live, NEW N, NEW T, Refilled(p, N, T)
    PROVE  LostFrames' \subseteq LostFrames
<1> SUFFICES ASSUME NEW f \in LostFrames'
             PROVE  f \in LostFrames
    OBVIOUS
<1>1. /\ f \in LowFrames /\ f \notin freePages'
      /\ \A v \in Page : region1'[v] # f
      /\ \A u \in live', v \in Page : region0'[u][v] # f
    BY DEF LostFrames
<1>2. live' = live /\ region1' = region1 /\ f # Invalid
    BY <1>1, LowRange DEF Refilled
<1>3. \A v \in Page : region0'[p][v] # f
    BY <1>1, <1>2
<1>4. f \notin T
    BY <1>3 DEF Refilled, Holds
<1>5. f \notin freePages
    BY <1>1, <1>4 DEF Refilled
<1>6. \A v \in Page : region0[p][v] # f
    BY <1>1, <1>2, <1>3, <1>4 DEF Refilled
<1>7. \A u \in live, v \in Page : region0[u][v] # f
    BY <1>1, <1>2, <1>6 DEF Refilled
<1> QED
    BY <1>1, <1>2, <1>5, <1>7 DEF LostFrames

\* The frames of a program that has been loaded, and of its kernel stack.
LEMMA LoadedCount ==
    ASSUME NEW free \in SUBSET Frame, NEW low \in Nat, NEW stack \in Nat, NEW t,
           FitsVirtual(low, stack)
    PROVE  Cardinality(Held(Loaded(free, t, low, stack)))
             = Cardinality(Taken(free, low + stack))
               + Cardinality(Held(t) \cap KernelStack)
<1> DEFINE new  == Loaded(free, t, low, stack)
           N    == LowPages(low) \cup StackPages(stack)
           T    == Taken(free, low + stack)
<1>1. N \in SUBSET (Page \ KernelStack) /\ Holds(new, N, T)
    BY LoadedHolds
<1>2. /\ Given(new, Page \cap N, T)
      /\ \A v \in Page \ (Page \cap N) :
            new[v] = IF v \in KernelStack THEN t[v] ELSE Invalid
    BY LoadedGives
<1>3. Page \cap N = N /\ N \in SUBSET Page
    BY <1>1
<1>4. T \in SUBSET Frame
    BY TakenType
<1> HIDE DEF new, N, T
<1>5. Given(new, N, T)
    BY <1>2, <1>3
<1>6. Cardinality(N \cap Held(new)) = Cardinality(T)
    BY <1>1, <1>3, <1>4, <1>5, GivenCount
<1>7. Held(new) = (N \cap Held(new)) \cup (Held(t) \cap KernelStack)
  <2>1. Invalid \notin Frame
      BY Ranges
  <2>2. \A v \in Page \ N : new[v] \in Frame <=> v \in KernelStack /\ t[v] \in Frame
      BY <1>2, <1>3, <2>1
  <2>3. \A v \in KernelStack : v \in Page \ N
      BY <1>1, Ranges
  <2> QED
      BY <2>2, <2>3 DEF Held
<1>8. IsFiniteSet(N \cap Held(new)) /\ IsFiniteSet(Held(t) \cap KernelStack)
  <2>1. N \cap Held(new) \in SUBSET Page /\ Held(t) \cap KernelStack \in SUBSET Page
      BY DEF Held
  <2> QED
      BY <2>1, PageSets
<1>9. (N \cap Held(new)) \cap (Held(t) \cap KernelStack) = {}
    BY <1>1
<1>10. Cardinality(Held(new)) = Cardinality(N \cap Held(new))
                                + Cardinality(Held(t) \cap KernelStack)
    BY <1>7, <1>8, <1>9, CountUnion
<1> QED
    BY <1>6, <1>10 DEF new, T

\* Exec: what the old program had goes back, what the new one needs is taken.
LEMMA LoadProgramAccount ==
    ASSUME MemPart, NEW p \in live, live \subseteq Proc, Usable(p), NEW who,
           NEW low \in Nat, NEW stack \in Nat, LoadProgram(p, who, low, stack),
           UNCHANGED live
    PROVE  /\ num_free_pages' + Cardinality(Held(region0'[p]))
                 = num_free_pages + Cardinality(Held(region0[p]))
           /\ \A u \in live \ {p} : region0'[u] = region0[u]
           /\ UNCHANGED <<region1, currKernelBrk>>
           /\ LostFrames' \subseteq LostFrames
<1> DEFINE t    == region0[p]
           old  == Mapped(t) \ KernelStack
           G    == Freed(t, Page \ KernelStack)
           free == freePages \cup G
           new  == Loaded(free, t, low, stack)
           N    == LowPages(low) \cup StackPages(stack)
           T    == Taken(free, low + stack)
<1>1. CASE UNCHANGED <<freePages, num_free_pages, region0, region1, currKernelBrk>>
    BY <1>1 DEF LostFrames
<1>2. CASE /\ FitsVirtual(low, stack)
           /\ region0' = [region0 EXCEPT ![p] = new]
           /\ freePages' = free \ T
           /\ num_free_pages' = num_free_pages + Cardinality(old) - Cardinality(T)
           /\ UNCHANGED <<region1, currKernelBrk>>
  <2>1. p \in Proc /\ t \in [Page -> Entry] /\ num_free_pages \in Int
      BY DEF MemPart
  <2>2. free \in SUBSET Frame
      BY <2>1, FreedType DEF MemPart
  <2>3. region0'[p] = new /\ \A u \in live \ {p} : region0'[u] = region0[u]
      BY <1>2, <2>1 DEF MemPart
  <2>4. N \in SUBSET (Page \ KernelStack) /\ Holds(new, N, T)
      BY <1>2, <2>2, LoadedHolds
  <2>5. /\ Given(new, Page \cap N, T)
        /\ \A v \in Page \ (Page \cap N) :
              new[v] = IF v \in KernelStack THEN t[v] ELSE Invalid
      BY <2>2, LoadedGives
  <2>6. Page \cap N = N /\ N \in SUBSET Page
      BY <2>4
  <2>7. T \in SUBSET Frame /\ T \subseteq free
      BY <2>2, TakenType
  <2>8. \A v \in Page \ KernelStack : t[v] \in G \cup {Invalid}
      BY DEF Freed, Mapped
  <2>9. old = Held(t) \ KernelStack
      BY <2>1, Ranges DEF Mapped, Held, Usable, Entry
  <2> HIDE DEF t, old, G, new, N, T
  <2>10. Given(new, N, T) /\ \A v \in Page \ N :
             new[v] = IF v \in KernelStack THEN t[v] ELSE Invalid
      BY <2>5, <2>6
  <2>11. Refilled(p, N, T)
    <3>1. \A v \in Page \ KernelStack : t[v] \in freePages' \cup T \cup {Invalid}
        BY <1>2, <2>8
    <3>2. ASSUME NEW v \in Page \ N
          PROVE  \/ new[v] = t[v]
                 \/ /\ new[v] = Invalid
                    /\ t[v] \in freePages' \cup T \cup {Invalid}
      <4>1. new[v] = IF v \in KernelStack THEN t[v] ELSE Invalid
          BY <2>10
      <4>2. v \in KernelStack => new[v] = t[v]
          BY <4>1
      <4>3. v \notin KernelStack => /\ new[v] = Invalid
                                    /\ t[v] \in freePages' \cup T \cup {Invalid}
          BY <3>1, <4>1
      <4> QED
          BY <4>2, <4>3
    <3>3. \A v \in N : t[v] \in freePages' \cup T \cup {Invalid}
        BY <2>4, <3>1
    <3>4. freePages \subseteq freePages' \cup T
        BY <1>2
    <3> QED
        BY <1>2, <2>3, <2>4, <2>6, <2>7, <2>10, <3>2, <3>3, <3>4 DEF Refilled, t
  <2>12. Cardinality(Held(new)) = Cardinality(T)
                                  + Cardinality(Held(t) \cap KernelStack)
      BY <1>2, <2>2, LoadedCount DEF new, T
  <2>13. /\ IsFiniteSet(old) /\ IsFiniteSet(Held(t) \cap KernelStack)
         /\ Cardinality(old) \in Nat
         /\ Cardinality(Held(t) \cap KernelStack) \in Nat
    <3>1. old \in SUBSET Page /\ Held(t) \cap KernelStack \in SUBSET Page
        BY <2>9 DEF Held
    <3> QED
        BY <3>1, PageSets
  <2>14. /\ Held(t) = old \cup (Held(t) \cap KernelStack)
         /\ old \cap (Held(t) \cap KernelStack) = {}
      BY <2>9
  <2>15. Cardinality(Held(t)) = Cardinality(old)
                                + Cardinality(Held(t) \cap KernelStack)
      BY <2>13, <2>14, CountUnion
  <2>16. Cardinality(T) \in Nat
      BY <2>7, FrameSets
  <2>17. num_free_pages' + Cardinality(Held(new))
             = num_free_pages + Cardinality(Held(t))
      BY <1>2, <2>1, <2>12, <2>13, <2>15, <2>16
  <2>18. LostFrames' \subseteq LostFrames
      BY <2>11, RefilledLost
  <2> QED
      BY <1>2, <2>3, <2>17, <2>18 DEF t
<1> QED
    BY <1>1, <1>2 DEF LoadProgram, memVars

\* The stack grows into pages that have no frame.
LEMMA GrowMemoryAccount ==
    ASSUME MemPart, NEW p \in live, live \subseteq Proc, NEW v \in Page,
           OnePiece(region0[p], sp[p]), brk[p] >= MEM_INVALID_PAGES,
           GrowMemory(p, p, v), UNCHANGED live
    PROVE  /\ num_free_pages' + Cardinality(Held(region0'[p]))
                 = num_free_pages + Cardinality(Held(region0[p]))
           /\ \A u \in live \ {p} : region0'[u] = region0[u]
           /\ UNCHANGED <<region1, currKernelBrk>>
           /\ LostFrames' \subseteq LostFrames
<1> DEFINE t   == region0[p]
           S   == v .. sp[p] - 1
           new == Assign(freePages, t, S)
           T   == Taken(freePages, Cardinality(S))
<1>1. /\ p \in Proc /\ t \in [Page -> Entry] /\ num_free_pages \in Int
      /\ v \in Int /\ sp[p] \in Int /\ sp[p] <= StackLimit /\ StackLimit \in Nat
      /\ brk[p] \in Int /\ freePages \in SUBSET Frame
    BY Ranges DEF MemPart, OnePiece
<1>2. /\ v \notin Mapped(t) /\ v < StackLimit /\ v >= brk[p]
      /\ region0' = [region0 EXCEPT ![p] = new]
      /\ freePages' = freePages \ T
      /\ num_free_pages' = num_free_pages - Cardinality(T)
      /\ UNCHANGED <<region1, currKernelBrk>>
    BY DEF GrowMemory
<1>3. S \in SUBSET Page /\ S \cap KernelStack = {}
  <2>1. v \in Nat /\ StackLimit <= PAGE_TABLE_LEN - 1 /\ PAGE_TABLE_LEN \in Nat
      BY Sizes DEF Page, StackLimit
  <2>2. \A x \in S : x \in Int /\ 0 <= x /\ x < StackLimit
      BY <1>1, <2>1
  <2> HIDE DEF S
  <2> QED
      BY <1>1, <2>1, <2>2 DEF Page, KernelStack
<1>4. S \cap Mapped(t) = {}
  <2>1. PICK low \in 0 .. PAGE_TABLE_LEN :
            Mapped(t) \ KernelStack = LowPages(low) \cup (sp[p] .. StackLimit - 1)
      BY DEF OnePiece
  <2>2. v \notin LowPages(low)
      BY <1>1, <1>2, <2>1 DEF KernelStack
  <2>3. \A x \in S : x \notin LowPages(low)
      BY <1>1, <1>2, <2>2, Sizes DEF LowPages
  <2>4. \A x \in S : x \notin sp[p] .. StackLimit - 1
      BY <1>1
  <2> QED
      BY <1>3, <2>1, <2>3, <2>4
<1>5. region0'[p] = new /\ \A u \in live \ {p} : region0'[u] = region0[u]
    BY <1>1, <1>2 DEF MemPart
<1> HIDE DEF S, new, T, t
<1>6. IsFiniteSet(S) /\ Cardinality(S) \in Nat /\ S \in SUBSET Int
  <2>1. Page \subseteq Int
      BY Ranges
  <2> QED
      BY <1>3, <2>1, PageSets
<1>7. /\ Given(new, Page \cap S, T)
      /\ \A x \in Page \ S : new[x] = t[x]
    BY <1>1, <1>6, AssignGives DEF new, T
<1>8. Page \cap S = S
    BY <1>3
<1>9. Given(new, S, T)
    BY <1>7, <1>8
<1>10. Holds(new, S, T)
    BY <1>1, <1>3, AssignHolds DEF new, T
<1>11. T \in SUBSET freePages /\ T \in SUBSET Frame /\ Cardinality(T) \in Nat
  <2>1. T \in SUBSET freePages
      BY <1>1, TakenType DEF T
  <2> QED
      BY <1>1, <2>1, FrameSets
<1>12. \A x \in S : t[x] = Invalid
    BY <1>3, <1>4 DEF Mapped
<1>13. Refilled(p, S, T)
  <2>1. \A x \in Page \ S : new[x] = t[x]
      BY <1>7
  <2>2. freePages \subseteq freePages' \cup T
      BY <1>2
  <2> QED
      BY <1>2, <1>3, <1>5, <1>9, <1>10, <1>11, <1>12, <2>1, <2>2 DEF Refilled, t
<1>14. LostFrames' \subseteq LostFrames
    BY <1>13, RefilledLost
<1>15. Cardinality(S \cap Held(new)) = Cardinality(T)
    BY <1>3, <1>9, <1>10, <1>11, GivenCount
<1>16. /\ Held(new) = Held(t) \cup (S \cap Held(new))
       /\ Held(t) \cap (S \cap Held(new)) = {}
  <2>1. Invalid \notin Frame
      BY Ranges
  <2>2. \A x \in S : t[x] \notin Frame
      BY <1>12, <2>1
  <2>3. \A x \in Page \ S : new[x] = t[x]
      BY <1>7
  <2> QED
      BY <2>2, <2>3 DEF Held
<1>17. IsFiniteSet(Held(t)) /\ IsFiniteSet(S \cap Held(new))
       /\ Cardinality(Held(t)) \in Nat
  <2>1. Held(t) \in SUBSET Page /\ S \cap Held(new) \in SUBSET Page
      BY DEF Held
  <2> QED
      BY <2>1, PageSets
<1>18. Cardinality(Held(new)) = Cardinality(Held(t)) + Cardinality(S \cap Held(new))
    BY <1>16, <1>17, CountUnion
<1>19. num_free_pages' + Cardinality(Held(new))
           = num_free_pages + Cardinality(Held(t))
    BY <1>1, <1>2, <1>11, <1>15, <1>17, <1>18
<1> QED
    BY <1>2, <1>5, <1>14, <1>19 DEF t

\* The kernel heap grows into pages of Region 1 that have no frame of ours.
LEMMA SetKernelBrkAccount ==
    ASSUME MemPart, HeapLow, NEW n \in Nat \ {0}, SetKernelBrk(n), UNCHANGED live
    PROVE  /\ num_free_pages' + Cardinality(HeapPages')
                 = num_free_pages + Cardinality(HeapPages)
           /\ Cardinality(HeapPages) \in Nat /\ Cardinality(HeapPages') \in Nat
           /\ UNCHANGED <<region0, brk>>
           /\ HeapLow' /\ LostFrames' \subseteq LostFrames
<1> DEFINE k   == currKernelBrk
           S   == k .. k + n - 1
           new == Assign(freePages, region1, S)
           T   == Taken(freePages, n)
<1>1. /\ k \in Nat /\ OrigBrk \in Nat /\ OrigBrk <= k /\ k <= PAGE_TABLE_LEN
      /\ PAGE_TABLE_LEN \in Nat /\ num_free_pages \in Int
      /\ freePages \in SUBSET Frame
    BY Sizes DEF MemPart, HeapLow
<1>2. HeapPages \in SUBSET Page
    BY <1>1 DEF HeapPages, Page
<1>3. IsFiniteSet(HeapPages) /\ Cardinality(HeapPages) \in Nat
    BY <1>2, PageSets
<1>4. CASE UNCHANGED memVars
  <2>1. HeapPages' = HeapPages /\ LostFrames' = LostFrames
      BY <1>4 DEF memVars, HeapPages, LostFrames
  <2>2. HeapLow'
      BY <1>4 DEF memVars, HeapLow
  <2> QED
      BY <1>3, <1>4, <2>1, <2>2 DEF memVars
<1>5. CASE ~ UNCHANGED memVars
  <2>1. /\ k + n <= MaxKernelBrk /\ region1' = new
        /\ freePages' = freePages \ T
        /\ num_free_pages' = num_free_pages - Cardinality(T)
        /\ currKernelBrk' = k + n /\ UNCHANGED <<region0, brk>>
      BY <1>5 DEF SetKernelBrk
  <2>2. k + n <= PAGE_TABLE_LEN
      BY <1>1, <2>1, Sizes
  <2>3. S \in SUBSET Page
      BY <1>1, <2>2 DEF Page
  <2>4. Cardinality(S) = n
    <3>1. k \in Int /\ k + n - 1 \in Int
        BY <1>1
    <3>2. Cardinality(S) = IF k > k + n - 1 THEN 0 ELSE k + n - 1 - k + 1
        BY <3>1, FS_Interval
    <3> QED
        BY <1>1, <3>2
  <2>5. \A v \in Page : v >= k => v \in S \/ v >= k + n
      BY <1>1, Ranges
  <2>6. \A v \in S : v >= k
      BY <1>1
  <2>7. OrigBrk .. (k + n) - 1 = (OrigBrk .. k - 1) \cup S
        /\ (OrigBrk .. k - 1) \cap S = {}
      BY <1>1
  <2>8. \A v \in OrigBrk .. k - 1 : v \in Page \ S
      BY <1>1, <2>7 DEF Page
  <2>9. \A v \in Page : v >= k + n => v >= k /\ v \notin S
      BY <1>1, Ranges
  <2> HIDE DEF S, T, new
  <2>10. IsFiniteSet(S) /\ S \in SUBSET Int
    <3>1. Page \subseteq Int
        BY Ranges
    <3> QED
        BY <2>3, <3>1, PageSets
  <2>11. /\ Given(new, Page \cap S, T) /\ \A v \in Page \ S : new[v] = region1[v]
      BY <1>1, <2>4, <2>10, AssignGives DEF new, T
  <2>12. Page \cap S = S
      BY <2>3
  <2>13. Given(new, S, T) /\ Holds(new, S, T)
    <3>1. Holds(new, S, T)
        BY <1>1, <2>3, <2>4, AssignHolds DEF new, T
    <3> QED
        BY <2>11, <2>12, <3>1
  <2>14. T \in SUBSET Frame /\ Cardinality(T) \in Nat
      BY <1>1, TakenType, FrameSets DEF T
  <2>15. Cardinality(S \cap Held(new)) = Cardinality(T)
      BY <2>3, <2>13, <2>14, GivenCount
  <2>16. HeapPages' = HeapPages \cup (S \cap Held(new))
    <3>1. HeapPages' = {v \in (OrigBrk .. k - 1) \cup S : new[v] \in Frame}
        BY <2>1, <2>7 DEF HeapPages
    <3>2. \A v \in OrigBrk .. k - 1 : new[v] = region1[v]
        BY <2>8, <2>11
    <3> QED
        BY <2>3, <3>1, <3>2 DEF HeapPages, Held
  <2>17. HeapPages \cap (S \cap Held(new)) = {}
      BY <2>7 DEF HeapPages
  <2>18. IsFiniteSet(S \cap Held(new))
      BY <2>3, PageSets
  <2>19. Cardinality(HeapPages') = Cardinality(HeapPages) + Cardinality(T)
      BY <1>3, <2>15, <2>16, <2>17, <2>18, CountUnion
  <2>20. HeapLow'
    <3>1. OrigBrk <= k + n
        BY <1>1
    <3>2. \A v \in Page : v >= k + n => new[v] \notin LowFrames
        BY <2>9, <2>11 DEF HeapLow
    <3> QED
        BY <2>1, <3>1, <3>2 DEF HeapLow
  <2>21. ASSUME NEW f \in LostFrames'
         PROVE  f \in LostFrames
    <3>1. /\ f \in LowFrames /\ f \notin freePages'
          /\ \A v \in Page : new[v] # f
          /\ \A u \in live, v \in Page : region0[u][v] # f
        BY <2>1, <2>21 DEF LostFrames
    <3>2. f \notin T
        BY <2>3, <2>13, <3>1 DEF Holds
    <3>3. f \notin freePages
        BY <2>1, <3>1, <3>2
    <3>4. \A v \in Page : region1[v] # f
        BY <2>6, <2>11, <3>1 DEF HeapLow
    <3> QED
        BY <3>1, <3>3, <3>4 DEF LostFrames
  <2> QED
      BY <1>1, <1>3, <2>1, <2>14, <2>19, <2>20, <2>21
<1> QED
    BY <1>4, <1>5

-----------------------------------------------------------------------------
(* OnlyForkLeaks and CountDrift.  The two go together: a frame that leaves  *)
(* a table goes back to the free ones and is counted.                       *)

\* The text of a process begins above the pages that are never mapped.
BreaksAbove == \A p \in live \ {idle} : brk[p] >= MEM_INVALID_PAGES

\* The kernel stacks that BuildRegion0 has allocated in vain.
Leaked == KERNEL_STACK_PAGES * (next_proc_id - 2)

Balanced ==
    num_free_pages = NumPages - Cardinality(Pairs(live, region0))
                     - Cardinality(HeapPages) - Leaked

AInv == /\ FInv /\ SInv /\ HeapLow /\ BreaksAbove
        /\ Cardinality(LostFrames) <= Leaked
        /\ Balanced

LEMMA TakenRest ==
    ASSUME NEW free \in SUBSET Frame, NEW n \in Nat, n <= Cardinality(free)
    PROVE  /\ Cardinality(Taken(free, n)) = n
           /\ Cardinality(free \ Taken(free, n)) = Cardinality(free) - n
<1>1. Cardinality(Taken(free, n)) = n
    BY TakenCount
<1>2. Taken(free, n) \in SUBSET free
    BY TakenType
<1>3. IsFiniteSet(free)
    BY FrameSets
<1>4. Cardinality(free \ Taken(free, n))
          = Cardinality(free) - Cardinality(free \cap Taken(free, n))
    BY <1>3, FS_Difference
<1>5. free \cap Taken(free, n) = Taken(free, n)
    BY <1>2
<1> QED
    BY <1>1, <1>4, <1>5

LEMMA KernelStackSize ==
    /\ KernelStack \in SUBSET Page /\ KernelStack \in SUBSET Frame
    /\ IsFiniteSet(KernelStack) /\ Cardinality(KernelStack) = KERNEL_STACK_PAGES
<1>1. KernelStack \in SUBSET Page /\ KernelStack \in SUBSET Frame
    BY Ranges
<1>2. /\ StackLimit \in Int /\ PAGE_TABLE_LEN - 1 \in Int
      /\ ~(StackLimit > PAGE_TABLE_LEN - 1)
      /\ (PAGE_TABLE_LEN - 1) - StackLimit + 1 = KERNEL_STACK_PAGES
    BY Sizes DEF StackLimit
<1> QED
    BY <1>1, <1>2, FS_Interval, PageSets DEF KernelStack

\* Physical memory is large enough for all that boot takes.
LEMMA BootMemory ==
    /\ Cardinality(Taken(buildFreePages, bootNeed)) = bootNeed
    /\ Cardinality(Taken(bootFree2, KERNEL_STACK_PAGES)) = KERNEL_STACK_PAGES
    /\ Cardinality(Taken(bootFree3, bootNeed)) = bootNeed
<1> DEFINE K == KERNEL_STACK_PAGES
           R == PAGE_TABLE_LEN .. PAGE_TABLE_LEN + OrigBrk - 1
           B == buildFreePages
           g == PAGE_TABLE_LEN + bootVpn
<1>1. /\ K \in Nat /\ bootNeed \in Nat /\ NumPages \in Nat /\ OrigBrk \in Nat
      /\ 2 * (bootNeed + K) + OrigBrk + 1 <= NumPages
  <2>1. PICK stack \in ArgPages :
            2 * (InitPages + stack + K) + OrigBrk + 1 <= NumPages
      BY MemoryAssumption
  <2>2. bootStack <= stack
    <3>1. ArgPages \in SUBSET Nat /\ ArgPages # {}
        BY <2>1, Sizes
    <3> QED
        BY <2>1, <3>1, MinNumber DEF bootStack
  <2>3. stack \in Nat
      BY Sizes
  <2> QED
      BY <2>1, <2>2, <2>3, BootStack, Sizes DEF bootNeed
<1>2. R \in SUBSET Frame /\ IsFiniteSet(R) /\ Cardinality(R) = OrigBrk
  <2>1. R \in SUBSET Frame
      BY Sizes DEF Frame
  <2>2. /\ PAGE_TABLE_LEN \in Int /\ PAGE_TABLE_LEN + OrigBrk - 1 \in Int
        /\ ~(PAGE_TABLE_LEN > PAGE_TABLE_LEN + OrigBrk - 1)
        /\ (PAGE_TABLE_LEN + OrigBrk - 1) - PAGE_TABLE_LEN + 1 = OrigBrk
      BY Sizes
  <2> QED
      BY <2>1, <2>2, FS_Interval
<1>3. KernelStack \cap R = {}
    BY Sizes DEF KernelStack
<1>4. IsFiniteSet(Frame) /\ Cardinality(Frame) = NumPages
  <2>1. /\ 0 \in Int /\ NumPages - 1 \in Int /\ ~(0 > NumPages - 1)
        /\ (NumPages - 1) - 0 + 1 = NumPages
      BY Sizes
  <2> QED
      BY <2>1, FS_Interval DEF Frame
<1> HIDE DEF R
<1>5. Cardinality(KernelStack \cup R) = K + OrigBrk
    BY <1>2, <1>3, KernelStackSize, CountUnion
<1>6. B \in SUBSET Frame /\ Cardinality(B) = NumPages - (K + OrigBrk)
  <2>1. B = Frame \ (KernelStack \cup R)
      BY DEF buildFreePages, R
  <2>2. Frame \cap (KernelStack \cup R) = KernelStack \cup R
      BY <1>2, KernelStackSize
  <2>3. Cardinality(Frame \ (KernelStack \cup R))
            = Cardinality(Frame) - Cardinality(Frame \cap (KernelStack \cup R))
      BY <1>4, FS_Difference
  <2> QED
      BY <1>4, <1>5, <2>1, <2>2, <2>3
<1>7. /\ Cardinality(Taken(B, bootNeed)) = bootNeed
      /\ Cardinality(bootFree1) = Cardinality(B) - bootNeed
  <2>1. bootNeed <= Cardinality(B)
      BY <1>1, <1>6
  <2> QED
      BY <1>1, <1>6, <2>1, TakenRest DEF bootFree1
<1>8. /\ bootFree1 \in SUBSET Frame /\ bootFree2 \in SUBSET Frame
      /\ bootFree3 \in SUBSET Frame
    BY BootTables
<1>9. Cardinality(bootFree2) \in Nat
      /\ Cardinality(bootFree2) >= Cardinality(bootFree1) - 1
  <2>1. IsFiniteSet(bootFree1) /\ Cardinality(bootFree1) \in Nat
        /\ Cardinality(bootFree2) \in Nat
      BY <1>8, FrameSets
  <2>2. Cardinality(bootFree1 \ {g}) = IF g \in bootFree1
                                       THEN Cardinality(bootFree1) - 1
                                       ELSE Cardinality(bootFree1)
      BY <2>1, FS_RemoveElement
  <2> QED
      BY <2>1, <2>2 DEF bootFree2
<1>10. /\ Cardinality(Taken(bootFree2, K)) = K
       /\ Cardinality(bootFree3) = Cardinality(bootFree2) - K
  <2>1. K <= Cardinality(bootFree2)
      BY <1>1, <1>6, <1>7, <1>9
  <2> QED
      BY <1>1, <1>8, <2>1, TakenRest DEF bootFree3
<1>11. bootNeed <= Cardinality(bootFree3)
    BY <1>1, <1>6, <1>7, <1>9, <1>10
<1>12. Cardinality(Taken(bootFree3, bootNeed)) = bootNeed
    BY <1>1, <1>8, <1>11, TakenRest
<1> QED
    BY <1>7, <1>10, <1>12

\* init's kernel stack has all its frames at boot.
LEMMA BootKernelStack ==
    /\ Holds(initStack, KernelStack, Taken(bootFree2, KERNEL_STACK_PAGES))
    /\ Cardinality(Held(initStack) \cap KernelStack) = KERNEL_STACK_PAGES
<1> DEFINE T == Taken(bootFree2, KERNEL_STACK_PAGES)
<1>1. bootFree2 \in SUBSET Frame /\ KernelStack \in SUBSET Int
  <2>1. Page \subseteq Int
      BY Ranges
  <2> QED
      BY <2>1, BootTables, KernelStackSize
<1>2. T \in SUBSET Frame
    BY <1>1, TakenType
<1>3. Holds(initStack, KernelStack, T)
    BY <1>1, KernelStackSize, AssignHolds DEF initStack
<1>4. Given(initStack, Page \cap KernelStack, T)
    BY <1>1, KernelStackSize, AssignGives DEF initStack
<1>5. Page \cap KernelStack = KernelStack
    BY KernelStackSize
<1> HIDE DEF T
<1>6. Given(initStack, KernelStack, T)
    BY <1>4, <1>5
<1>7. Cardinality(KernelStack \cap Held(initStack)) = Cardinality(T)
    BY <1>2, <1>3, <1>6, KernelStackSize, GivenCount
<1>8. KernelStack \cap Held(initStack) = Held(initStack) \cap KernelStack
    OBVIOUS
<1> QED
    BY <1>3, <1>7, <1>8, BootMemory DEF T

LEMMA BootHeld ==
    /\ Cardinality(Held(idleTable)) = bootNeed + KERNEL_STACK_PAGES
    /\ Cardinality(Held(initTable)) = bootNeed + KERNEL_STACK_PAGES
<1>1. /\ InitPages \in Nat /\ bootStack \in Nat /\ FitsVirtual(InitPages, bootStack)
      /\ buildFreePages \in SUBSET Frame /\ bootFree3 \in SUBSET Frame
    BY Sizes, BootStack, BootTables
<1>2. Held(idleStack) \cap KernelStack = KernelStack
  <2>1. \A v \in KernelStack : v \in Page /\ v \in Frame /\ idleStack[v] = v
      BY KernelStackSize DEF idleStack
  <2> QED
      BY <2>1 DEF Held
<1>3. Cardinality(Held(idleTable)) = Cardinality(Taken(buildFreePages, bootNeed))
          + Cardinality(Held(idleStack) \cap KernelStack)
    BY <1>1, LoadedCount DEF idleTable, bootNeed
<1>4. Cardinality(Held(initTable)) = Cardinality(Taken(bootFree3, bootNeed))
          + Cardinality(Held(initStack) \cap KernelStack)
    BY <1>1, LoadedCount DEF initTable, bootNeed
<1> QED
    BY <1>2, <1>3, <1>4, KernelStackSize, BootMemory, BootKernelStack

\* At boot every frame that is not free is in a table.
LEMMA BootLost ==
    ASSUME Init
    PROVE  LostFrames = {}
<1> DEFINE N  == LowPages(InitPages) \cup StackPages(bootStack)
           T1 == Taken(buildFreePages, bootNeed)
           T2 == Taken(bootFree2, KERNEL_STACK_PAGES)
           T3 == Taken(bootFree3, bootNeed)
<1>1. /\ InitPages \in Nat /\ bootStack \in Nat /\ FitsVirtual(InitPages, bootStack)
      /\ buildFreePages \in SUBSET Frame /\ bootFree3 \in SUBSET Frame
    BY Sizes, BootStack, BootTables
<1>2. N \in SUBSET (Page \ KernelStack) /\ Holds(idleTable, N, T1)
    BY <1>1, LoadedHolds DEF idleTable, bootNeed
<1>3. Holds(initTable, N, T3)
    BY <1>1, LoadedHolds DEF initTable, bootNeed
<1>4. \A v \in KernelStack : idleTable[v] = idleStack[v] /\ initTable[v] = initStack[v]
  <2>1. /\ \A v \in Page \ (Page \cap N) : idleTable[v] =
               IF v \in KernelStack THEN idleStack[v] ELSE Invalid
        /\ \A v \in Page \ (Page \cap N) : initTable[v] =
               IF v \in KernelStack THEN initStack[v] ELSE Invalid
      BY <1>1, LoadedGives DEF idleTable, initTable
  <2>2. \A v \in KernelStack : v \in Page \ (Page \cap N)
      BY <1>2, KernelStackSize
  <2> QED
      BY <2>1, <2>2
<1>5. Holds(initStack, KernelStack, T2)
    BY BootKernelStack
<1>6. /\ idle \in live /\ init \in live /\ freePages = bootFree3 \ T3
      /\ region0[idle] = idleTable /\ region0[init] = initTable
    BY InitParts, Ranges
<1> HIDE DEF N, T1, T2, T3
<1> SUFFICES ASSUME NEW f \in LostFrames
             PROVE  FALSE
    OBVIOUS
<1>7. /\ f \in LowFrames /\ f \notin freePages
      /\ \A v \in Page : idleTable[v] # f /\ initTable[v] # f
    BY <1>6 DEF LostFrames
<1>8. \A v \in N : v \in Page
    BY <1>2
<1>9. \A v \in KernelStack : v \in Page
    BY KernelStackSize
<1>10. f \notin T1 /\ f \notin T3
    BY <1>2, <1>3, <1>7, <1>8 DEF Holds
<1>11. f \notin T2
    BY <1>4, <1>5, <1>7, <1>9 DEF Holds
<1>12. f \notin KernelStack
  <2>1. \A v \in KernelStack : idleStack[v] = v
      BY <1>9 DEF idleStack
  <2> QED
      BY <1>4, <1>7, <1>9, <2>1
<1>13. f \notin PAGE_TABLE_LEN .. PAGE_TABLE_LEN + OrigBrk - 1
    BY <1>7, Sizes DEF LowFrames
<1>14. f \in buildFreePages
    BY <1>7, <1>12, <1>13, LowRange DEF buildFreePages
<1>15. f # PAGE_TABLE_LEN + bootVpn
    BY <1>7, BootVpn, LowRange
<1>16. f \in bootFree3
    BY <1>10, <1>11, <1>14, <1>15 DEF bootFree1, bootFree2, bootFree3, T1, T2
<1> QED
    BY <1>6, <1>7, <1>10, <1>16

LEMMA AInvInit ==
    Init => AInv
<1> SUFFICES ASSUME Init
             PROVE  AInv
    OBVIOUS
<1>1. FInv /\ SInv
    BY FInvInit, SInvInit
<1>2. currKernelBrk = OrigBrk /\ next_proc_id = 2 /\ live = {idle, init}
    BY InitParts
<1>3. HeapLow
  <2>1. \A v \in Page : region1[v] = IF v = bootVpn THEN PAGE_TABLE_LEN + bootVpn
                                                    ELSE initPT[v]
      BY InitParts, BootVpn
  <2>2. \A v \in Page : initPT[v] = IF v < OrigBrk THEN PAGE_TABLE_LEN + v
                                                   ELSE Invalid
      BY DEF initPT
  <2>3. \A v \in Page : region1[v] \notin LowFrames
      BY <2>1, <2>2, BootVpn, LowRange
  <2>4. OrigBrk <= OrigBrk
      BY Sizes
  <2> QED
      BY <1>2, <2>3, <2>4 DEF HeapLow
<1>4. BreaksAbove
  <2>1. brk[init] = MEM_INVALID_PAGES + InitPages
      BY InitParts, Ranges
  <2>2. brk[init] >= MEM_INVALID_PAGES
      BY <2>1, Sizes
  <2> QED
      BY <1>2, <2>2 DEF BreaksAbove
<1>5. Leaked = 0
    BY <1>2, Sizes DEF Leaked
<1>6. Cardinality(LostFrames) = 0
    BY BootLost, FS_EmptySet
<1>7. Cardinality(HeapPages) = 0
  <2>1. HeapPages = {}
      BY <1>2, Sizes DEF HeapPages
  <2> QED
      BY <2>1, FS_EmptySet
<1>8. Cardinality(Pairs(live, region0)) = 2 * bootNeed + 2 * KERNEL_STACK_PAGES
  <2>1. /\ idle \in Proc /\ init \in Proc /\ idle # init
        /\ region0[idle] = idleTable /\ region0[init] = initTable
      BY InitParts, Ranges
  <2>2. /\ Cardinality(Pairs({idle, init}, region0))
              = Cardinality(Pairs({idle, init} \ {init}, region0))
                + Cardinality(Held(region0[init]))
      BY <2>1, PairsSplit
  <2>3. /\ Cardinality(Pairs({idle}, region0))
              = Cardinality(Pairs({idle} \ {idle}, region0))
                + Cardinality(Held(region0[idle]))
      BY <2>1, PairsSplit
  <2>4. {idle, init} \ {init} = {idle} /\ {idle} \ {idle} = {}
      BY <2>1
  <2>5. Pairs({}, region0) = {}
      BY DEF Pairs
  <2>6. Cardinality(Pairs({}, region0)) = 0
      BY <2>5, FS_EmptySet
  <2>7. Cardinality(Pairs({idle}, region0)) = Cardinality(Held(idleTable))
    <3>1. Cardinality(Held(region0[idle])) \in Nat
        BY PageSets DEF Held
    <3>2. Cardinality(Pairs({idle} \ {idle}, region0)) = 0
        BY <2>4, <2>6
    <3>3. Cardinality(Pairs({idle}, region0)) = Cardinality(Held(region0[idle]))
        BY <2>3, <3>1, <3>2
    <3> QED
        BY <2>1, <3>3
  <2>8. Cardinality(Pairs(live, region0))
            = Cardinality(Held(idleTable)) + Cardinality(Held(initTable))
      BY <1>2, <2>1, <2>2, <2>4, <2>7
  <2> QED
      BY <2>8, BootHeld, BootStack, Sizes
<1>9. Balanced
  <2>1. num_free_pages = NumPages - 2 * KERNEL_STACK_PAGES - 2 * bootNeed
      BY InitParts
  <2> QED
      BY <1>5, <1>7, <1>8, <2>1, BootStack, Sizes DEF Balanced
<1> QED
    BY <1>1, <1>3, <1>4, <1>5, <1>6, <1>9 DEF AInv

LEMMA CountsType ==
    ASSUME MemPart, next_proc_id \in Nat
    PROVE  /\ num_free_pages \in Int /\ Leaked \in Int
           /\ HeapPages \in SUBSET Page /\ Cardinality(HeapPages) \in Nat
<1>1. HeapPages \in SUBSET Page
    BY Sizes DEF MemPart, HeapPages, Page
<1>2. Cardinality(HeapPages) \in Nat
    BY <1>1, PageSets
<1>3. Leaked \in Int
    BY Sizes DEF Leaked
<1> QED
    BY <1>1, <1>2, <1>3 DEF MemPart

\* A step that changes the table of p, and counts what it does.
LEMMA OneTable ==
    ASSUME NEW p \in live, live \subseteq Proc, UNCHANGED live,
           MemPart, next_proc_id \in Nat, num_free_pages' \in Int,
           num_free_pages' + Cardinality(Held(region0'[p]))
               = num_free_pages + Cardinality(Held(region0[p])),
           \A u \in live \ {p} : region0'[u] = region0[u],
           UNCHANGED <<region1, currKernelBrk, next_proc_id>>,
           Balanced, HeapLow
    PROVE  Balanced' /\ HeapLow'
<1>1. /\ Cardinality(Pairs(live, region0))
            = Cardinality(Pairs(live \ {p}, region0)) + Cardinality(Held(region0[p]))
      /\ Cardinality(Pairs(live \ {p}, region0)) \in Nat
      /\ Cardinality(Held(region0[p])) \in Nat
    BY PairsSplit
<1>2. /\ Cardinality(Pairs(live, region0'))
            = Cardinality(Pairs(live \ {p}, region0')) + Cardinality(Held(region0'[p]))
      /\ Cardinality(Held(region0'[p])) \in Nat
    BY PairsSplit
<1>3. Pairs(live \ {p}, region0') = Pairs(live \ {p}, region0)
    BY PairsSame
<1>4. HeapPages' = HeapPages /\ Leaked' = Leaked
    BY DEF HeapPages, Leaked
<1>5. Pairs(live, region0)' = Pairs(live, region0')
    BY DEF Pairs
<1>6. num_free_pages \in Int /\ Cardinality(HeapPages) \in Nat /\ Leaked \in Int
    BY CountsType
<1>7. Balanced'
    BY <1>1, <1>2, <1>3, <1>4, <1>5, <1>6, Sizes DEF Balanced
<1>8. HeapLow'
    BY DEF HeapLow
<1> QED
    BY <1>7, <1>8

LEMMA AInvStep ==
    ASSUME AInv, [Next]_vars, "Brk" \notin Ops, "Delay" \notin Ops,
           "Idle" \notin Ops, "Rotate" \notin Ops
    PROVE  AInv'
<1>1. /\ MemPart /\ HeapOK /\ next_proc_id \in 2 .. MaxPid + 1 /\ next_proc_id \in Nat
      /\ live \subseteq Proc /\ MInv /\ FInv /\ SInv /\ IdsUsed
      /\ HeapLow /\ BreaksAbove /\ Balanced /\ Cardinality(LostFrames) <= Leaked
      /\ \A p \in live \ {idle} : OnePiece(region0[p], sp[p])
    BY TypeParts DEF AInv, FInv, SInv, MInv
<1>2. FInv' /\ SInv' /\ num_free_pages' \in Int
  <2>1. FInv'
      BY <1>1, FInvStep
  <2>2. SInv'
      BY <1>1, SInvStep
  <2> QED
      BY <2>1, <2>2 DEF FInv, MInv, MemoryTypeOK
<1>3. ASSUME HeapLow', BreaksAbove', Balanced', Cardinality(LostFrames') <= Leaked'
      PROVE  AInv'
    BY <1>2, <1>3 DEF AInv
<1>4. ASSUME LostFrames' \subseteq LostFrames, UNCHANGED next_proc_id
      PROVE  Cardinality(LostFrames') <= Leaked'
  <2>1. Leaked' = Leaked
      BY <1>4 DEF Leaked
  <2>2. IsFiniteSet(LostFrames) /\ Cardinality(LostFrames) \in Nat
      BY LostFinite
  <2>3. Cardinality(LostFrames') <= Cardinality(LostFrames)
        /\ IsFiniteSet(LostFrames')
      BY <1>4, <2>2, FS_Subset
  <2>4. Cardinality(LostFrames') \in Nat /\ Leaked \in Int
      BY <1>1, <2>3, FS_CardinalityType, CountsType
  <2> QED
      BY <1>1, <2>1, <2>2, <2>3, <2>4
<1>5. CASE UNCHANGED vars
  <2>1. HeapLow' /\ BreaksAbove' /\ Balanced' /\ LostFrames' = LostFrames
      BY <1>1, <1>5 DEF vars, memVars, HeapLow, BreaksAbove, Balanced, Pairs,
                        HeapPages, Leaked, LostFrames
  <2>2. Cardinality(LostFrames') <= Leaked'
      BY <1>4, <1>5, <2>1 DEF vars
  <2> QED
      BY <1>3, <2>1, <2>2
<1>6. ASSUME NEW c \in Callers, Fork(c[1], c[2])
      PROVE  AInv'
  <2> DEFINE child == next_proc_id
             p     == c[1]
             S     == Mapped(region0[p])
  <2>1. /\ child \in Proc \ live /\ child \in Nat
        /\ next_proc_id' = child + 1 /\ live' = live \cup {child}
        /\ ForkMemory(p, c[2], child)
    <3>1. child \in Nat /\ child <= MaxPid /\ ~(child < child)
        BY <1>1, <1>6, Sizes DEF Fork
    <3>2. child \in Proc
        BY <3>1 DEF Proc
    <3>3. child \notin live
        BY <1>1, <3>1 DEF IdsUsed
    <3> QED
        BY <1>6, <3>1, <3>2, <3>3 DEF Fork
  <2>2. p \in live \ {idle} /\ p \in Proc /\ c[2] \in Proc
      BY <1>1, CallerType
  <2>3. /\ num_free_pages' = num_free_pages - KERNEL_STACK_PAGES - Cardinality(S)
        /\ brk' = [brk EXCEPT ![child] = brk[p]]
      BY <2>1 DEF ForkMemory
  <2> HIDE DEF child, p, S
  <2>4. /\ Cardinality(Held(region0'[child])) = Cardinality(S)
        /\ \A u \in live : region0'[u] = region0[u]
        /\ HeapLow' /\ HeapPages' = HeapPages
        /\ \E X : /\ IsFiniteSet(X) /\ Cardinality(X) = KERNEL_STACK_PAGES
                  /\ LostFrames' \subseteq LostFrames \cup X
      BY <1>1, <2>1, <2>2, ForkMemoryAccount DEF S
  <2>5. PICK X : /\ IsFiniteSet(X) /\ Cardinality(X) = KERNEL_STACK_PAGES
                 /\ LostFrames' \subseteq LostFrames \cup X
      BY <2>4
  <2>6. Leaked' = Leaked + KERNEL_STACK_PAGES /\ Leaked \in Int
    <3>1. KERNEL_STACK_PAGES * ((child + 1) - 2)
              = KERNEL_STACK_PAGES * (child - 2) + KERNEL_STACK_PAGES
        BY <2>1, Sizes
    <3> QED
        BY <1>1, <2>1, <3>1, CountsType DEF Leaked, child
  <2>7. Cardinality(LostFrames') <= Leaked'
    <3>1. IsFiniteSet(LostFrames) /\ Cardinality(LostFrames) \in Nat
        BY LostFinite
    <3>2. /\ IsFiniteSet(LostFrames \cup X)
          /\ Cardinality(LostFrames \cup X) = Cardinality(LostFrames)
                + Cardinality(X) - Cardinality(LostFrames \cap X)
        BY <2>5, <3>1, FS_Union
    <3>3. Cardinality(LostFrames \cap X) \in Nat
        BY <3>1, FS_Intersection, FS_CardinalityType
    <3>4. IsFiniteSet(LostFrames')
          /\ Cardinality(LostFrames') <= Cardinality(LostFrames \cup X)
        BY <2>5, <3>2, FS_Subset
    <3>5. Cardinality(LostFrames') \in Nat
        BY <3>4, FS_CardinalityType
    <3> QED
        BY <1>1, <2>5, <2>6, <3>1, <3>2, <3>3, <3>4, <3>5, Sizes
  <2>8. Balanced'
    <3>1. live' \ {child} = live /\ child \in live' /\ live' \subseteq Proc
        BY <1>1, <2>1
    <3>2. /\ Cardinality(Pairs(live', region0'))
                = Cardinality(Pairs(live' \ {child}, region0'))
                  + Cardinality(Held(region0'[child]))
          /\ Cardinality(Pairs(live' \ {child}, region0')) \in Nat
          /\ Cardinality(Held(region0'[child])) \in Nat
        BY <3>1, PairsSplit
    <3>3. Pairs(live, region0') = Pairs(live, region0)
        BY <2>4, PairsSame
    <3>4. Cardinality(Pairs(live', region0'))
              = Cardinality(Pairs(live, region0)) + Cardinality(S)
        BY <2>4, <3>1, <3>2, <3>3
    <3>5. Cardinality(Pairs(live, region0)) \in Nat /\ Cardinality(S) \in Nat
        BY <2>4, <3>1, <3>2, <3>3
    <3>6. Pairs(live, region0)' = Pairs(live', region0')
        BY DEF Pairs
    <3>7. num_free_pages \in Int /\ Cardinality(HeapPages) \in Nat
        BY <1>1, CountsType
    <3> QED
        BY <1>1, <2>3, <2>4, <2>6, <3>4, <3>5, <3>6, <3>7, Sizes DEF Balanced
  <2>9. BreaksAbove'
    <3>1. /\ brk'[child] = brk[p]
          /\ \A u \in live : brk'[u] = brk[u]
        BY <1>1, <2>1, <2>3 DEF MemPart
    <3> QED
        BY <1>1, <2>1, <2>2, <3>1 DEF BreaksAbove
  <2> QED
      BY <1>3, <2>4, <2>7, <2>8, <2>9
<1>7. ASSUME NEW c \in Callers, Exit(c[1])
      PROVE  AInv'
  <2> DEFINE p == c[1]
  <2>1. p \in live /\ p \in Proc /\ Usable(p)
      BY <1>1, CallerType
  <2>2. /\ live' = live \ {p} /\ ExitMemory(p) /\ UNCHANGED <<next_proc_id, brk>>
      BY <1>7 DEF Exit, ExitMemory
  <2> HIDE DEF p
  <2>3. /\ num_free_pages' = num_free_pages + Cardinality(Held(region0[p]))
        /\ region0' = region0
        /\ UNCHANGED <<region1, currKernelBrk>>
        /\ LostFrames' \subseteq LostFrames
      BY <1>1, <2>1, <2>2, ExitMemoryAccount
  <2>4. HeapLow' /\ BreaksAbove'
      BY <1>1, <2>2, <2>3 DEF HeapLow, BreaksAbove
  <2>5. Balanced'
    <3>1. /\ Cardinality(Pairs(live, region0))
                = Cardinality(Pairs(live \ {p}, region0))
                  + Cardinality(Held(region0[p]))
          /\ Cardinality(Pairs(live \ {p}, region0)) \in Nat
          /\ Cardinality(Held(region0[p])) \in Nat
        BY <1>1, <2>1, PairsSplit
    <3>2. Pairs(live, region0)' = Pairs(live \ {p}, region0)
        BY <2>2, <2>3 DEF Pairs
    <3>3. HeapPages' = HeapPages /\ Leaked' = Leaked
        BY <2>2, <2>3 DEF HeapPages, Leaked
    <3>4. num_free_pages \in Int /\ Cardinality(HeapPages) \in Nat /\ Leaked \in Int
        BY <1>1, CountsType
    <3> QED
        BY <1>1, <2>3, <3>1, <3>2, <3>3, <3>4, Sizes DEF Balanced
  <2>6. Cardinality(LostFrames') <= Leaked'
      BY <1>4, <2>2, <2>3
  <2> QED
      BY <1>3, <2>4, <2>5, <2>6
<1>8. ASSUME NEW c \in Callers, Exec(c[1])
      PROVE  AInv'
  <2> DEFINE p == c[1]
  <2>1. p \in live /\ p \in Proc /\ Usable(p)
      BY <1>1, CallerType
  <2>2. UNCHANGED <<next_proc_id, live>>
      BY <1>8 DEF Exec
  <2>3. PICK low \in ProgramPages, stack \in ArgPages : LoadProgram(p, p, low, stack)
      BY <1>8 DEF Exec, ExecMemory
  <2> HIDE DEF p
  <2>4. low \in Nat /\ stack \in Nat
      BY Sizes
  <2>5. /\ num_free_pages' + Cardinality(Held(region0'[p]))
              = num_free_pages + Cardinality(Held(region0[p]))
        /\ \A u \in live \ {p} : region0'[u] = region0[u]
        /\ UNCHANGED <<region1, currKernelBrk>>
        /\ LostFrames' \subseteq LostFrames
      BY <1>1, <2>1, <2>2, <2>3, <2>4, LoadProgramAccount
  <2>6. Balanced' /\ HeapLow'
      BY <1>1, <1>2, <2>1, <2>2, <2>5, OneTable
  <2>7. BreaksAbove'
    <3>1. brk' = brk \/ brk' = [brk EXCEPT ![p] = MEM_INVALID_PAGES + low]
        BY <2>3 DEF LoadProgram, memVars
    <3>2. MEM_INVALID_PAGES + low >= MEM_INVALID_PAGES
        BY <2>4, Sizes
    <3>3. ASSUME NEW u \in live \ {idle}
          PROVE  brk'[u] >= MEM_INVALID_PAGES
      <4>1. brk'[u] = brk[u] \/ brk'[u] = MEM_INVALID_PAGES + low
          BY <1>1, <3>1 DEF MemPart
      <4> QED
          BY <1>1, <3>2, <4>1 DEF BreaksAbove
    <3> QED
        BY <2>2, <3>3 DEF BreaksAbove
  <2>8. Cardinality(LostFrames') <= Leaked'
      BY <1>4, <2>2, <2>5
  <2> QED
      BY <1>3, <2>6, <2>7, <2>8
<1>9. ASSUME NEW c \in Callers, NEW v \in Page, Grow(c[1], c[2], v)
      PROVE  AInv'
  <2> DEFINE p == c[1]
  <2>1. p \in live \ {idle} /\ p \in live /\ p \in Proc /\ c[2] = p
      BY <1>1, CallerType
  <2>2. UNCHANGED <<next_proc_id, live, brk>> /\ GrowMemory(p, p, v)
      BY <1>9, <2>1 DEF Grow, GrowMemory
  <2> HIDE DEF p
  <2>3. OnePiece(region0[p], sp[p]) /\ brk[p] >= MEM_INVALID_PAGES
      BY <1>1, <2>1 DEF BreaksAbove
  <2>4. /\ num_free_pages' + Cardinality(Held(region0'[p]))
              = num_free_pages + Cardinality(Held(region0[p]))
        /\ \A u \in live \ {p} : region0'[u] = region0[u]
        /\ UNCHANGED <<region1, currKernelBrk>>
        /\ LostFrames' \subseteq LostFrames
      BY <1>1, <2>1, <2>2, <2>3, GrowMemoryAccount
  <2>5. Balanced' /\ HeapLow'
      BY <1>1, <1>2, <2>1, <2>2, <2>4, OneTable
  <2>6. BreaksAbove'
      BY <1>1, <2>2 DEF BreaksAbove
  <2>7. Cardinality(LostFrames') <= Leaked'
      BY <1>4, <2>2, <2>4
  <2> QED
      BY <1>3, <2>5, <2>6, <2>7
<1>10. CASE Malloc
  <2>1. PICK n \in 1 .. PAGE_TABLE_LEN : SetKernelBrk(n)
      BY <1>10 DEF Malloc
  <2>2. UNCHANGED <<next_proc_id, live>> /\ n \in Nat \ {0}
      BY <1>10, Sizes DEF Malloc
  <2>3. /\ num_free_pages' + Cardinality(HeapPages')
              = num_free_pages + Cardinality(HeapPages)
        /\ Cardinality(HeapPages) \in Nat /\ Cardinality(HeapPages') \in Nat
        /\ UNCHANGED <<region0, brk>>
        /\ HeapLow' /\ LostFrames' \subseteq LostFrames
      BY <1>1, <2>1, <2>2, SetKernelBrkAccount
  <2>4. Balanced'
    <3>1. Pairs(live, region0)' = Pairs(live, region0) /\ Leaked' = Leaked
        BY <2>2, <2>3 DEF Pairs, Leaked
    <3>2. Cardinality(Pairs(live, region0)) \in Nat
      <4>1. idle \in live
          BY <1>1 DEF IdsUsed
      <4>2. /\ Cardinality(Pairs(live, region0))
                  = Cardinality(Pairs(live \ {idle}, region0))
                    + Cardinality(Held(region0[idle]))
            /\ Cardinality(Pairs(live \ {idle}, region0)) \in Nat
            /\ Cardinality(Held(region0[idle])) \in Nat
          BY <1>1, <4>1, PairsSplit
      <4> QED
          BY <4>2
    <3>3. num_free_pages \in Int /\ Leaked \in Int
        BY <1>1, CountsType
    <3> QED
        BY <1>1, <1>2, <2>3, <3>1, <3>2, <3>3, Sizes DEF Balanced
  <2>5. BreaksAbove'
      BY <1>1, <2>2, <2>3 DEF BreaksAbove
  <2>6. Cardinality(LostFrames') <= Leaked'
      BY <1>4, <2>2, <2>3
  <2> QED
      BY <1>3, <2>3, <2>4, <2>5, <2>6
<1>11. ~Reload
    BY DEF Reload
<1>12. ASSUME NEW c \in Callers, NEW b \in Breaks, Brk(c[1], b)
       PROVE  AInv'
    BY <1>12 DEF Brk
<1> QED
    BY <1>5, <1>6, <1>7, <1>8, <1>9, <1>10, <1>11, <1>12 DEF Next

LEMMA AInvCorrect ==
    ASSUME "Brk" \notin Ops, "Delay" \notin Ops, "Idle" \notin Ops,
           "Rotate" \notin Ops
    PROVE  Spec => []AInv
<1>1. AInv /\ [Next]_vars => AInv'
    BY AInvStep
<1> QED
    BY AInvInit, <1>1, PTL DEF Spec

\* Whatever is forked, executed, grown and ended, the only frames that are neither
\* free nor in a table are kernel stacks that BuildRegion0 allocated for a child
\* and SwitchFork replaced, one stack for every process ever forked: Exec and
\* Exit give back all that Exec, Fork and the growth of a stack took, also when
\* some of these calls of findFreePage failed.  Left out: Brk, which frees frames
\* by page number, the reload of init, whose table is then that of no process,
\* and a growth in the name of another process (Rotate), which can replace
\* pages that are mapped.
THEOREM OnlyForkLeaksCorrect ==
    ASSUME "Brk" \notin Ops, "Delay" \notin Ops, "Idle" \notin Ops,
           "Rotate" \notin Ops
    PROVE  Spec => []OnlyForkLeaks
<1>1. AInv => OnlyForkLeaks
  <2> SUFFICES ASSUME AInv
               PROVE  OnlyForkLeaks
      OBVIOUS
  <2>1. live \subseteq Proc
      BY DEF AInv, FInv, MInv, MemoryTypeOK
  <2>2. {f \in LowFrames \ freePages : UsesOf(f) = {}} = LostFrames
      BY <2>1, LostAre
  <2> QED
      BY <2>2 DEF AInv, OnlyForkLeaks, Leaked
<1> QED
    BY AInvCorrect, <1>1, PTL

\* num_free_pages is exact but for what boot and BuildRegion0 leave out, after
\* any sequence of the same operations: no error path of LoadProgram, Fork, stack
\* growth or SetKernelBrk counts a frame that it did not take, or takes one that
\* it does not count.  The same operations are left out, for the same reasons.
THEOREM CountDriftCorrect ==
    ASSUME "Brk" \notin Ops, "Delay" \notin Ops, "Idle" \notin Ops,
           "Rotate" \notin Ops
    PROVE  Spec => []CountDrift
<1>1. AInv => CountDrift
    BY DEF AInv, Balanced, CountDrift, Pairs, HeapPages, Leaked
<1> QED
    BY AInvCorrect, <1>1, PTL
=============================================================================
