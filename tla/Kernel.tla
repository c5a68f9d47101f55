------------------------------- MODULE Kernel -------------------------------
(***************************************************************************)
(* The kernel as a whole: the processes of Processes.tla with the memory   *)
(* of Memory.tla.  Each action of Processes is joined with what the same   *)
(* code does to frames and page tables, in the name of curr_proc and with  *)
(* the addresses of cpu.  Exec, Brk and the growth of user stacks, which   *)
(* change no process, are added.                                           *)
(***************************************************************************)
EXTENDS Processes

CONSTANTS
    PAGE_TABLE_LEN, KERNEL_STACK_PAGES, MEM_INVALID_PAGES, NumPages, OrigBrk,
    InitPages, ProgramPages, ArgPages, MaxKernelBrk, MaxStack, Breaks,
    MaxCount

VARIABLES
    freePages, num_free_pages, region0, region1, free_vpn, brk, sp,
    currKernelBrk

\* The operations of Memory that these programs cause: those they call, and the
\* exits of exceptions, rotations and the first run of idle, which nobody calls.
Ops == Calls \cup {"Exit", "Rotate", "Idle"}

M == INSTANCE Memory WITH
        live <- Live \cup {idle},
        booting <- ctx[idle].at = "boot"

ASSUME KernelAssumption == M!MemoryAssumption

memVars == <<freePages, num_free_pages, region0, region1, free_vpn, brk, sp,
             currKernelBrk>>
allVars == <<vars, memVars>>

KernelInit == Init /\ M!Init

-----------------------------------------------------------------------------
(* Both the running process and curr_proc have all their frames.  When      *)
(* memory has run out, the machine fails at the next access to the missing  *)
(* one.                                                                     *)

Usable == M!Usable(cpu) /\ M!Usable(curr_proc)

Starved ==
    /\ kmode = "user" /\ cpu # idle
    /\ ~Usable
    /\ Crash("undefined")
    /\ UNCHANGED memVars

Fork ==
    /\ Usable
    /\ ForkFunc
    /\ M!ForkMemory(curr_proc, cpu, next_proc_id)

\* The copy reads a page that cpu does not map, or there is no frame or no page
\* of Region 1 left.
ForkFails ==
    /\ UserCall("Fork")
    /\ next_proc_id <= MaxPid
    /\ ~M!CanFork(curr_proc, cpu)
    /\ Crash("undefined")
    /\ UNCHANGED memVars

\* Mutated form of Terminate: the memory freed is that of the running process.
TerminateFreesCpu ==
    /\ Usable
    /\ \/ \E s \in Status : Exit(s)
       \/ TrapIllegalHandler
       \/ TrapMathHandler
       \/ TrapMemoryHandler /\ kmode' = "kernel"
    /\ M!ExitMemory(cpu)

Terminate ==
    /\ Usable
    /\ \/ \E s \in Status : Exit(s)
       \/ TrapIllegalHandler
       \/ TrapMathHandler
       \/ TrapMemoryHandler /\ kmode' = "kernel"
    /\ M!ExitMemory(curr_proc)

\* A memory exception at page v that enlarges the stack.
Grow(v) ==
    /\ Usable
    /\ UserCall("Grow")
    /\ v >= M!StackLimit - MaxStack
    /\ M!GrowMemory(curr_proc, cpu, v)
    /\ UNCHANGED vars

ExecFunc(low, stack) ==
    /\ Usable
    /\ UserCall("Exec")
    /\ M!ExecMemory(curr_proc, low, stack)
    /\ UNCHANGED vars

BrkFunc(b) ==
    /\ Usable
    /\ UserCall("Brk")
    /\ num_free_pages <= MaxCount
    /\ M!BrkMemory(curr_proc, b)
    /\ UNCHANGED vars

\* A break that makes BrkFunc write past the end of region0Pt, over whatever the
\* kernel keeps there.
BrkOverrun(b) ==
    /\ UserCall("Brk")
    /\ M!BrkOverruns(curr_proc, b)
    /\ Crash("undefined")
    /\ UNCHANGED memVars

\* What idle needs: the pages that its table had at boot, which Brk may have
\* replaced or unmapped, and, for its return from KernelStart, a table of init
\* whose frames can be freed.
IdleSound ==
    /\ \A v \in M!Mapped(M!IdleTable) : region0[idle][v] = M!IdleTable[v]
    /\ ctx[idle].at = "boot" => M!Usable(init)

\* idle runs, or is to run, without them.
IdleLost ==
    /\ kmode \in {"user", "kernel"} /\ cpu = idle
    /\ ~IdleSound
    /\ Crash("undefined")
    /\ UNCHANGED memVars

\* idle is resumed for the first time, at the end of KernelStart.
FirstIdle ==
    /\ Resumes("boot")
    /\ M!Usable(init)
    /\ ResumeReturn
    /\ M!ReloadMemory

\* The machine is given back to a process that has exited.
ExitTail == ResumeExit /\ M!ExitTail(curr_proc)

\* The rest of the kernel leaves memory alone.
Schedule ==
    /\ \/ WaitFunc
       \/ \E n \in 1 .. MaxDelay : DelayFunc(n)
       \/ TtyWriteFunc
       \/ TrapTTYTransmitHandler
       \/ TtyReadFunc
       \/ TrapClockHandler
       \/ ~Resumes("boot") /\ ResumeReturn
       \/ ResumeWait
       \/ ResumeClock
       \/ ResumeForeign
       \/ Stopped
    /\ UNCHANGED memVars

KernelNext ==
    \/ Starved
    \/ Fork
    \/ ForkFails
    \/ Terminate
    \/ \E v \in M!Page : Grow(v)
    \/ \E b \in Breaks : BrkFunc(b) \/ BrkOverrun(b)
    \/ \E low \in ProgramPages, stack \in ArgPages : ExecFunc(low, stack)
    \/ FirstIdle
    \/ IdleLost
    \/ ExitTail
    \/ Schedule

KernelSpec == KernelInit /\ [][KernelNext]_allVars

-----------------------------------------------------------------------------
(* Properties.                                                              *)

\* For programs that neither Delay nor use terminals, every change to memory is
\* an operation of Memory.tla: it is done for a process that has not exited,
\* while one that has not exited runs.  What is proved and checked of Memory
\* holds of the kernel.
MemorySpec == M!Spec

\* Of the frames below those of Region 1, a program runs on none that is free and
\* on none that another live process has: no exit, exec or fork of others takes
\* one away.  Above them a Fork may free the frame of a running program, as it
\* marks the frame behind its borrowed page PAGE_FREE in use or not.
UserMemoryOwned ==
    kmode = "user" /\ cpu # idle =>
        \A v \in M!Page : region0[cpu][v] \in M!LowFrames =>
            /\ region0[cpu][v] \notin freePages
            /\ \A p \in Live \ {cpu} :
                  \A w \in M!Page : region0[p][w] # region0[cpu][v]

\* The page tables of live processes stay apart, also when processes are
\* delayed, resumed after their exit or preempted by the terminals, until the
\* machine leaves what the program defines: by a Brk past the end of region0Pt,
\* for one.
TablesKept == M!TablesApart
=============================================================================
