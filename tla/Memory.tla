------------------------------- MODULE Memory -------------------------------
(***************************************************************************)
(* Memory of the Yalnix kernel: physical page frames, the Region 0 page    *)
(* table of each process and the Region 1 page table of the kernel.  The   *)
(* module follows the frame allocator of sharedvar.c, LoadProgram, brk.c,  *)
(* the growth of user stacks in handlers.c, the copies and the releases of *)
(* contextswitch.c, and SetKernelBrk and the boot sequence of yalnix.c.    *)
(*                                                                         *)
(* The processes appear only as callers.  An operation is done for process *)
(* p, the kernel's curr_proc, while process q runs, that is, while the     *)
(* machine translates addresses with the table of q.  Kernel.tla composes  *)
(* this module with Processes.tla, which says when p and q differ.         *)
(***************************************************************************)
EXTENDS Integers, FiniteSets, FiniteSetsExt

CONSTANTS
    PAGE_TABLE_LEN,      \* pages in a region
    KERNEL_STACK_PAGES,  \* pages of the kernel stack, the last of Region 0
    MEM_INVALID_PAGES,   \* pages at the bottom of Region 0 never mapped
    NumPages,            \* num_pages: frames of physical memory
    OrigBrk,             \* Region 1 pages below the kernel break at boot
    InitPages,           \* text, data and bss pages of the first programs
    ProgramPages,        \* the same for the programs given to Exec
    ArgPages,            \* stack pages that the arguments of a program need
    MaxPid,              \* bound: the highest process_id
    MaxKernelBrk,        \* bound: the highest kernel break, in pages
    MaxStack,            \* bound: the deepest user stack, in pages
    Breaks,              \* the breaks that programs ask for, in pages
    MaxCount,            \* bound: num_free_pages beyond which no Brk is made
    Ops                  \* the operations that take place

ASSUME MemoryAssumption ==
    /\ {PAGE_TABLE_LEN, KERNEL_STACK_PAGES, MEM_INVALID_PAGES, NumPages,
        OrigBrk, InitPages, MaxPid, MaxKernelBrk, MaxStack,
        MaxCount} \subseteq Nat \ {0}
    /\ Breaks \subseteq Nat
    /\ PAGE_TABLE_LEN > KERNEL_STACK_PAGES + MEM_INVALID_PAGES
    /\ PAGE_TABLE_LEN > OrigBrk + 3
    /\ NumPages >= 2 * PAGE_TABLE_LEN
    /\ ProgramPages \subseteq Nat
    /\ ArgPages \subseteq Nat \ {0}
    /\ \E stack \in ArgPages :            \* the first programs are loaded
           /\ MEM_INVALID_PAGES + InitPages + 1 + stack + 1 + KERNEL_STACK_PAGES
                 <= PAGE_TABLE_LEN
           /\ 2 * (InitPages + stack + KERNEL_STACK_PAGES) + OrigBrk + 1
                 <= NumPages
    /\ MaxKernelBrk <= PAGE_TABLE_LEN

Proc == 0 .. MaxPid
idle == 0
init == 1
KERNEL == -1        \* stands for Region 1 where a process stands for Region 0

Page == 0 .. PAGE_TABLE_LEN - 1
Frame == 0 .. NumPages - 1

\* The first page above the user stack (USER_STACK_LIMIT, KERNEL_STACK_BASE).
StackLimit == PAGE_TABLE_LEN - KERNEL_STACK_PAGES
KernelStack == StackLimit .. PAGE_TABLE_LEN - 1

\* A page table entry: the frame of a valid page.  findFreePage returns NoFrame
\* when memory is exhausted, and its callers store that as the frame.
NoFrame == -1
Invalid == -2

VARIABLES
    freePages,       \* the frames marked PAGE_FREE
    num_free_pages,
    region0,         \* pcb.region0: the Region 0 page table of each process
    region1,         \* region1Pt
    free_vpn,        \* pcb.free_vpn: the Region 1 page that holds the table
    brk,             \* pcb.brk, in pages
    sp,              \* pcb.sp, the lowest page of the user stack
    currKernelBrk,   \* in pages of Region 1
    next_proc_id,
    live,            \* idle and the processes that have not exited
    booting          \* idle has not yet returned from KernelStart

memVars == <<freePages, num_free_pages, region0, region1, free_vpn, brk, sp,
             currKernelBrk>>
vars == <<memVars, next_proc_id, live, booting>>

MemoryTypeOK ==
    /\ freePages \subseteq Frame
    /\ num_free_pages \in Int
    /\ region0 \in [Proc -> [Page -> Frame \cup {NoFrame, Invalid}]]
    /\ region1 \in [Page -> Frame \cup {NoFrame, Invalid}]
    /\ free_vpn \in [Proc -> Page \cup {-1}]
    /\ brk \in [Proc -> Int]
    /\ sp \in [Proc -> Int]
    /\ currKernelBrk \in 1 .. PAGE_TABLE_LEN
    /\ next_proc_id \in 2 .. MaxPid + 1
    /\ live \subseteq Proc
    /\ booting \in BOOLEAN

-----------------------------------------------------------------------------
(* Frames.  findFreePage returns the lowest free frame, so a loop that      *)
(* calls it n times gets the n lowest ones in order.                        *)

Rank(free, f) == Cardinality({g \in free : g < f})

\* The frames that n calls of findFreePage mark PAGE_USED.
Taken(free, n) == {f \in free : Rank(free, f) < n}

\* Mutated form of findFreePage: the scan goes one frame too far.
findFreePagePastEnd(free, n) ==
    IF n <= Cardinality(free)
    THEN CHOOSE f \in free : Rank(free, f) = n - 1
    ELSE NumPages

\* The result of the n-th of them.
findFreePage(free, n) ==
    IF n <= Cardinality(free)
    THEN CHOOSE f \in free : Rank(free, f) = n - 1
    ELSE NoFrame

Mapped(table) == {v \in Page : table[v] # Invalid}

\* Table t after a loop over the pages of S, upwards, has given each of them a
\* frame.
Assign(free, t, S) ==
    [v \in Page |-> IF v \in S
                    THEN findFreePage(free, Cardinality({u \in S : u <= v}))
                    ELSE t[v]]

\* The frames that freePage gets in a loop over the valid pages in S.
Freed(t, S) == {t[v] : v \in S \cap Mapped(t)}

\* Memory was never exhausted while this table was filled.  Otherwise freePage
\* writes far outside its array, and an access to the page has no frame.
Usable(p) == \A v \in Page : region0[p][v] # NoFrame

-----------------------------------------------------------------------------
(* LoadProgram.                                                             *)

LowPages(low) == MEM_INVALID_PAGES .. MEM_INVALID_PAGES + low - 1
StackPages(stack) == StackLimit - stack .. StackLimit - 1

\* Mutated form of Loaded: the old pages of the process stay mapped.
LoadedOver(free, t, low, stack) ==
    [v \in Page |->
        IF v \in LowPages(low)
        THEN findFreePage(free, v - MEM_INVALID_PAGES + 1)
        ELSE IF v \in StackPages(stack)
        THEN findFreePage(free, low + StackLimit - v)
        ELSE t[v]]

\* Table t with a new program: text, data and bss upwards, then the stack from
\* its top downwards; the kernel stack stays.
Loaded(free, t, low, stack) ==
    [v \in Page |->
        IF v \in LowPages(low)
        THEN findFreePage(free, v - MEM_INVALID_PAGES + 1)
        ELSE IF v \in StackPages(stack)
        THEN findFreePage(free, low + StackLimit - v)
        ELSE IF v \in KernelStack THEN t[v] ELSE Invalid]

\* The virtual memory check.
FitsVirtual(low, stack) ==
    MEM_INVALID_PAGES + low + 1 + stack + 1 + KERNEL_STACK_PAGES
        <= PAGE_TABLE_LEN

\* Load a program into the table of p while curr_proc is who.  A file that cannot
\* be opened or is not a program changes nothing.  When the file is too short,
\* or is read into the text of a running process other than p, the result is -2
\* with the tables as after a success.
LoadProgram(p, who, low, stack) ==
    \/ /\ ~FitsVirtual(low, stack)
       /\ UNCHANGED memVars                                     \* returns -1
    \/ /\ FitsVirtual(low, stack)
       /\ low + stack > num_free_pages
       /\ brk' = [brk EXCEPT ![who] = MEM_INVALID_PAGES + low]
       /\ UNCHANGED <<freePages, num_free_pages, region0, region1, free_vpn,
                      sp, currKernelBrk>>                       \* returns -1
    \/ /\ FitsVirtual(low, stack)
       /\ low + stack <= num_free_pages
       /\ LET old  == Mapped(region0[p]) \ KernelStack
              free == freePages \cup Freed(region0[p], Page \ KernelStack)
              new  == Loaded(free, region0[p], low, stack)
          IN  /\ brk' = [brk EXCEPT ![who] = MEM_INVALID_PAGES + low]
              /\ sp' = [sp EXCEPT ![who] = StackLimit - stack]
              /\ region0' = [region0 EXCEPT ![p] = new]
              /\ freePages' = free \ Taken(free, low + stack)
              /\ num_free_pages' = num_free_pages + Cardinality(old)
                                   - Cardinality(Taken(free, low + stack))
       /\ UNCHANGED <<region1, free_vpn, currKernelBrk>>

-----------------------------------------------------------------------------
(* Boot: initPT, idle's program, init's table and kernel stack              *)
(* (BuildRegion0, SwitchNewProc) and init's program.                        *)

\* Mutated form of findFreeVirtualPage: the search starts at the bottom.
findFreeVirtualPageLow(r1) == Min({v \in 0 .. PAGE_TABLE_LEN - 3 :
                                       r1[v] = Invalid})
findFreeVirtualPage(r1) == Max({v \in 0 .. PAGE_TABLE_LEN - 3 :
                                    r1[v] = Invalid})

\* Mutated form of BorrowR1Page: the search starts at the top.
BorrowR1PageHigh(r1) == Max({v \in Page : r1[v] = Invalid})
BorrowR1Page(r1) == Min({v \in Page : r1[v] = Invalid})

Unmapped == [v \in Page |-> Invalid]

\* initPT maps the kernel stack and Region 1 one to one, and subtracts only
\* the former from num_free_pages.
initPT == [v \in Page |-> IF v < OrigBrk THEN PAGE_TABLE_LEN + v ELSE Invalid]
buildFreePages ==
    Frame \ (KernelStack \cup PAGE_TABLE_LEN .. PAGE_TABLE_LEN + OrigBrk - 1)

\* region0Pt, which holds the kernel stack that KernelStart runs on and then
\* idle's program.
IdleTable ==
    Loaded(buildFreePages,
           [v \in Page |-> IF v \in KernelStack THEN v ELSE Invalid],
           InitPages, Min(ArgPages))

Init ==
    LET stack == Min(ArgPages)
        n     == InitPages + stack
        vpn   == findFreeVirtualPage(initPT)
        free1 == buildFreePages \ Taken(buildFreePages, n)
        free2 == free1 \ {PAGE_TABLE_LEN + vpn}
        free3 == free2 \ Taken(free2, KERNEL_STACK_PAGES)
        init0 == Assign(free2, Unmapped, KernelStack)
    IN  /\ freePages = free3 \ Taken(free3, n)
        /\ num_free_pages = NumPages - 2 * KERNEL_STACK_PAGES - 2 * n
        /\ region0 = [p \in Proc |->
               IF p = idle THEN IdleTable
               ELSE IF p = init THEN Loaded(free3, init0, InitPages, stack)
               ELSE Unmapped]
        /\ region1 = [initPT EXCEPT ![vpn] = PAGE_TABLE_LEN + vpn]
        /\ free_vpn = [p \in Proc |-> IF p = init THEN vpn ELSE -1]
        /\ brk = [p \in Proc |-> IF p \in {idle, init}
                                 THEN MEM_INVALID_PAGES + InitPages ELSE -1]
        /\ sp = [p \in Proc |-> IF p \in {idle, init}
                                THEN StackLimit - stack ELSE -1]
        /\ currKernelBrk = OrigBrk
        /\ next_proc_id = 2
        /\ live = {idle, init}
        /\ booting = TRUE

-----------------------------------------------------------------------------
(* Operations.  malloc, which may move the kernel break, is called in Fork, *)
(* Exit, Exec and Delay before or after all they do to memory, so that      *)
(* SetKernelBrk can be a step of its own.                                   *)

\* Mutated form of BuildRegion0: the page is not marked valid in Region 1.
BuildRegion0NotValid(vpn) == region1

\* The page vpn of Region 1 holds a new Region 0 table.
BuildRegion0(vpn) == [region1 EXCEPT ![vpn] = PAGE_TABLE_LEN + vpn]

\* SwitchFork reads every page of p through the table of q, and writes to the
\* new frames: it needs the former mapped and the latter to exist.
CanFork(p, q) ==
    /\ \E v \in 0 .. PAGE_TABLE_LEN - 3 : region1[v] = Invalid
    /\ Mapped(region0[p]) \subseteq Mapped(region0[q])
    /\ KERNEL_STACK_PAGES + Cardinality(Mapped(region0[p]))
          <= Cardinality(freePages \ {PAGE_TABLE_LEN
                                        + findFreeVirtualPage(region1)})

\* BuildRegion0 and SwitchFork for the child c of p.  The kernel-stack frames
\* that the former allocates are overwritten by the latter.  The frame behind
\* the borrowed page is marked PAGE_FREE at the end.
ForkMemory(p, q, c) ==
    LET S     == Mapped(region0[p])
        vpn   == findFreeVirtualPage(region1)
        free1 == freePages \ {PAGE_TABLE_LEN + vpn}
        free2 == free1 \ Taken(free1, KERNEL_STACK_PAGES)
        free3 == free2 \ Taken(free2, Cardinality(S))
    IN  /\ CanFork(p, q)
        /\ region1' = BuildRegion0(vpn)
        /\ free_vpn' = [free_vpn EXCEPT ![c] = vpn]
        /\ region0' = [region0 EXCEPT ![c] = Assign(free2, Unmapped, S)]
        /\ freePages' =
              free3 \cup {PAGE_TABLE_LEN + BorrowR1Page(BuildRegion0(vpn))}
        /\ num_free_pages' =
              num_free_pages - KERNEL_STACK_PAGES - Cardinality(S)
        /\ brk' = [brk EXCEPT ![c] = brk[p]]
        /\ sp' = [sp EXCEPT ![c] = sp[p]]
        /\ UNCHANGED currKernelBrk

\* Mutated form of ExitMemory: the frames are freed but not counted.
ExitMemoryUncounted(p) ==
    /\ freePages' = freePages \cup Freed(region0[p], Page)
    /\ UNCHANGED <<num_free_pages, region0, region1, free_vpn, brk, sp,
                   currKernelBrk>>

\* SwitchExit frees every frame of p and leaves its table as it is.
ExitMemory(p) ==
    /\ freePages' = freePages \cup Freed(region0[p], Page)
    /\ num_free_pages' = num_free_pages + Cardinality(Mapped(region0[p]))
    /\ UNCHANGED <<region0, region1, free_vpn, brk, sp, currKernelBrk>>

\* The end of ExitFunc frees the page of the table.  Only an exiting process
\* that is its own successor gets there.
ExitTail(p) ==
    /\ region1' = [region1 EXCEPT ![free_vpn[p]] = Invalid]
    /\ freePages' = freePages \cup {region1[free_vpn[p]]}
    /\ num_free_pages' = num_free_pages + 1
    /\ UNCHANGED <<region0, free_vpn, brk, sp, currKernelBrk>>

\* Mutated form of GrowMemory: one page too many gets a frame.
GrowOneMore(p, q, v) ==
    LET S == v .. sp[p]
    IN  /\ v \in Page \ Mapped(region0[q])
        /\ v < StackLimit
        /\ v >= brk[p]
        /\ region0' = [region0 EXCEPT ![p] = Assign(freePages, @, S)]
        /\ freePages' = freePages \ Taken(freePages, Cardinality(S))
        /\ num_free_pages' =
              num_free_pages - Cardinality(Taken(freePages, Cardinality(S)))
        /\ sp' = [sp EXCEPT ![p] = v]
        /\ UNCHANGED <<region1, free_vpn, brk, currKernelBrk>>

\* Mutated form of GrowMemory: the stack pointer of the pcb stays.
GrowKeepsSp(p, q, v) ==
    LET S == v .. sp[p] - 1
    IN  /\ v \in Page \ Mapped(region0[q])
        /\ v < StackLimit
        /\ v >= brk[p]
        /\ region0' = [region0 EXCEPT ![p] = Assign(freePages, @, S)]
        /\ freePages' = freePages \ Taken(freePages, Cardinality(S))
        /\ num_free_pages' =
              num_free_pages - Cardinality(Taken(freePages, Cardinality(S)))
        /\ UNCHANGED <<region1, free_vpn, brk, sp, currKernelBrk>>

\* TrapMemoryHandler, when process q has touched page v, which is not mapped.
\* An address below the break or in the kernel stack ends the process instead.
GrowMemory(p, q, v) ==
    LET S == v .. sp[p] - 1
    IN  /\ v \in Page \ Mapped(region0[q])
        /\ v < StackLimit
        /\ v >= brk[p]
        /\ region0' = [region0 EXCEPT ![p] = Assign(freePages, @, S)]
        /\ freePages' = freePages \ Taken(freePages, Cardinality(S))
        /\ num_free_pages' =
              num_free_pages - Cardinality(Taken(freePages, Cardinality(S)))
        /\ sp' = [sp EXCEPT ![p] = v]
        /\ UNCHANGED <<region1, free_vpn, brk, currKernelBrk>>

\* The pages that the two loops of BrkFunc go over.  Moving down, it goes up from
\* the old break and not from the new one.
BrkDown(p, b) == brk[p] .. 2 * brk[p] - b - 1
BrkUp(p, b) == brk[p] .. b - 1

\* A loop leaves the array region0Pt: nothing in BrkFunc bounds the break.
BrkOverruns(p, b) ==
    \/ /\ MEM_INVALID_PAGES <= b /\ b < brk[p]
       /\ ~(BrkDown(p, b) \subseteq Page)
    \/ /\ brk[p] <= b
       /\ ~(BrkUp(p, b) \subseteq Page)

\* BrkFunc changes the table region0Pt, which is that of idle.  Moving down, it
\* frees the frames whose numbers are those of the pages.  What it does to
\* memory when it overruns region0Pt is undefined, and not described here.
BrkMemory(p, b) ==
    LET down == BrkDown(p, b)
        up   == BrkUp(p, b)
    IN  \/ /\ b < MEM_INVALID_PAGES
           /\ b < brk[p]
           /\ UNCHANGED memVars                              \* returns ERROR
        \/ /\ MEM_INVALID_PAGES <= b /\ b < brk[p]
           /\ down \subseteq Page
           /\ freePages' = freePages \cup down
           /\ num_free_pages' = num_free_pages + Cardinality(down)
           /\ region0' = [region0 EXCEPT ![idle] =
                 [v \in Page |-> IF v \in down THEN Invalid ELSE @[v]]]
           /\ brk' = [brk EXCEPT ![p] = b]
           /\ UNCHANGED <<region1, free_vpn, sp, currKernelBrk>>
        \/ /\ brk[p] <= b
           /\ up \subseteq Page
           /\ region0' = [region0 EXCEPT ![idle] = Assign(freePages, @, up)]
           /\ freePages' = freePages \ Taken(freePages, Cardinality(up))
           /\ num_free_pages' =
                 num_free_pages - Cardinality(Taken(freePages, Cardinality(up)))
           /\ brk' = [brk EXCEPT ![p] = b]
           /\ UNCHANGED <<region1, free_vpn, sp, currKernelBrk>>

\* malloc moves the kernel break up by n pages.  It asks for breaks at the ends
\* of pages; after another, SetKernelBrk would map a page a second time.
SetKernelBrk(n) ==
    LET up == currKernelBrk .. currKernelBrk + n - 1
    IN  \/ /\ num_free_pages < n
           /\ UNCHANGED memVars                              \* returns ERROR
        \/ /\ num_free_pages >= n
           /\ currKernelBrk + n <= MaxKernelBrk
           /\ region1' = Assign(freePages, region1, up)
           /\ freePages' = freePages \ Taken(freePages, n)
           /\ num_free_pages' =
                 num_free_pages - Cardinality(Taken(freePages, n))
           /\ currKernelBrk' = currKernelBrk + n
           /\ UNCHANGED <<region0, free_vpn, brk, sp>>

\* ExecFunc.  A result of -2 is returned to the program as success.
ExecMemory(p, low, stack) == LoadProgram(p, p, low, stack)

\* idle, resumed for the first time, returns from the switch to init at the end
\* of KernelStart and loads init's program once more.
ReloadMemory == LoadProgram(init, idle, InitPages, Min(ArgPages))

-----------------------------------------------------------------------------
(* The system: operations in any order, each in the name of a live process  *)
(* p while a live process q runs.  p and q differ after a rotation.         *)

Callers == {c \in (live \ {idle}) \X (live \ {idle}) :
                /\ c[1] = c[2] \/ "Rotate" \in Ops
                /\ Usable(c[1]) /\ Usable(c[2])}

Fork(p, q) ==
    /\ "Fork" \in Ops
    /\ next_proc_id <= MaxPid
    /\ ForkMemory(p, q, next_proc_id)
    /\ next_proc_id' = next_proc_id + 1
    /\ live' = live \cup {next_proc_id}
    /\ UNCHANGED booting

Exit(p) ==
    /\ "Exit" \in Ops
    /\ ExitMemory(p)
    /\ live' = live \ {p}
    /\ UNCHANGED <<next_proc_id, booting>>

Exec(p) ==
    /\ "Exec" \in Ops
    /\ \E low \in ProgramPages, stack \in ArgPages : ExecMemory(p, low, stack)
    /\ UNCHANGED <<next_proc_id, live, booting>>

Grow(p, q, v) ==
    /\ "Grow" \in Ops
    /\ v >= StackLimit - MaxStack
    /\ GrowMemory(p, q, v)
    /\ UNCHANGED <<next_proc_id, live, booting>>

\* A Brk that moves down frees pages that may be free already, so that
\* num_free_pages grows without limit: it is bounded here.
Brk(p, b) ==
    /\ "Brk" \in Ops
    /\ num_free_pages <= MaxCount
    /\ BrkMemory(p, b)
    /\ UNCHANGED <<next_proc_id, live, booting>>

Malloc ==
    /\ "Malloc" \in Ops
    /\ \E n \in 1 .. PAGE_TABLE_LEN : SetKernelBrk(n)
    /\ UNCHANGED <<next_proc_id, live, booting>>

\* idle runs for the first time when the last process has exited or, if there
\* are delays, when all processes are delayed.
Reload ==
    /\ booting
    /\ ("Idle" \in Ops /\ live = {idle}) \/ "Delay" \in Ops
    /\ Usable(init)
    /\ ReloadMemory
    /\ booting' = FALSE
    /\ UNCHANGED <<next_proc_id, live>>

Next ==
    \/ \E c \in Callers : \/ Fork(c[1], c[2])
                          \/ Exit(c[1])
                          \/ Exec(c[1])
                          \/ \E v \in Page : Grow(c[1], c[2], v)
                          \/ \E b \in Breaks : Brk(c[1], b)
    \/ Malloc
    \/ Reload

Spec == Init /\ [][Next]_vars

-----------------------------------------------------------------------------
(* Properties.                                                              *)

Users == live \cup {KERNEL}
TableOf(u) == IF u = KERNEL THEN region1 ELSE region0[u]
UsesOf(f) == {x \in Users \X Page : TableOf(x[1])[x[2]] = f}

\* Frames that findFreePage hands out first, below those of Region 1.
LowFrames == 0 .. PAGE_TABLE_LEN - 1

\* A frame below those of Region 1 is free or in use at one page of one table:
\* no sequence of Fork, Exec, Exit, stack growth and kernel heap growth gives
\* such a frame away twice or frees it under its user.  It says nothing of the
\* frames above, one of which SwitchFork marks PAGE_FREE in use or not.
FramesOwned ==
    \A f \in LowFrames :
        /\ Cardinality(UsesOf(f)) <= 1
        /\ UsesOf(f) # {} => f \notin freePages

\* What SwitchFork does to frames in use, by marking the frame behind the page it
\* has borrowed PAGE_FREE, and BuildRegion0, by taking the frame behind the page
\* it has found, stays with the frames behind such pages: first above the kernel
\* break, or holding a table.  Any other frame of Region 1 or above is in use at
\* one page at most and is not free then, as long as heap and tables do not meet
\* in Region 1.
OnlyBorrowedShared ==
    LET borrowed == {PAGE_TABLE_LEN + v : v \in OrigBrk .. currKernelBrk}
        tables   == {PAGE_TABLE_LEN + free_vpn[p] :
                        p \in {init} \cup 2 .. next_proc_id - 1}
    IN  \A f \in Frame \ (LowFrames \cup borrowed \cup tables) :
            /\ Cardinality(UsesOf(f)) <= 1
            /\ UsesOf(f) # {} => f \notin freePages

\* The page tables of live processes are in different pages of Region 1, and the
\* kernel reaches each of them: no other mapping has replaced it, after any
\* number of Brks that stay within region0Pt.
TablesApart ==
    \A p \in live \ {idle} :
        /\ region1[free_vpn[p]] = PAGE_TABLE_LEN + free_vpn[p]
        /\ free_vpn[p] >= currKernelBrk
        /\ \A q \in live \ {idle, p} : free_vpn[q] # free_vpn[p]

\* Frames are lost in Fork only, no more than a kernel stack has for every
\* process ever forked: what Exec, stack growth and Fork allocate, Exec and Exit
\* give back.
OnlyForkLeaks ==
    Cardinality({f \in LowFrames \ freePages : UsesOf(f) = {}})
        <= KERNEL_STACK_PAGES * (next_proc_id - 2)

\* num_free_pages is all of physical memory but the pages of the processes, the
\* pages by which the kernel heap has grown and the kernel stacks lost in Fork:
\* the checks of LoadProgram and SetKernelBrk overlook the kernel as it was at
\* boot and the page tables, and nothing else.
CountDrift ==
    num_free_pages
        = NumPages
          - Cardinality({x \in live \X Page : region0[x[1]][x[2]] \in Frame})
          - Cardinality({v \in OrigBrk .. currKernelBrk - 1 :
                            region1[v] \in Frame})
          - KERNEL_STACK_PAGES * (next_proc_id - 2)

\* The user memory of a process is a block of text, data and bss at the bottom
\* and one stack block that begins at sp and ends at the kernel stack.
StackInOnePiece ==
    \A p \in live \ {idle} : \E low \in 0 .. PAGE_TABLE_LEN :
        Mapped(region0[p]) \ KernelStack
            = LowPages(low) \cup (sp[p] .. StackLimit - 1)
=============================================================================
