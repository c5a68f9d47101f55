----------------------------- MODULE Kernel_proofs -----------------------------
(***************************************************************************)
(* Proofs about Kernel.tla, the processes together with their memory, for  *)
(* programs that neither Delay nor write to a terminal: the kernel does to *)
(* memory what Memory.tla says, so that what is proved there holds here.   *)
(***************************************************************************)
EXTENDS Kernel, Scheduling_proofs

-----------------------------------------------------------------------------
(* The processes behave in Kernel.tla as in Processes.tla, but for the ways *)
(* to fail that memory adds.                                                *)

LEMMA StepOfKernel ==
    ASSUME [KernelNext]_allVars
    PROVE  [Next]_vars \/ Crash("undefined")
<1>1. ASSUME \/ Starved \/ ForkFails \/ IdleLost
             \/ \E b \in Breaks : BrkOverrun(b)
      PROVE  Crash("undefined")
    BY <1>1 DEF Starved, ForkFails, IdleLost, BrkOverrun
<1>2. CASE Fork
    BY <1>2 DEF Fork, Next
<1>3. CASE Terminate
    BY <1>3 DEF Terminate, Next
<1>4. ASSUME \/ \E v \in M!Page : Grow(v)
             \/ \E b \in Breaks : BrkFunc(b)
      PROVE  [Next]_vars
    BY <1>4 DEF Grow, BrkFunc
<1>5. ASSUME NEW low \in ProgramPages, NEW stack \in ArgPages,
             ExecFunc(low, stack)
      PROVE  [Next]_vars
    BY <1>5 DEF ExecFunc
<1>6. CASE FirstIdle \/ ExitTail
    BY <1>6 DEF FirstIdle, ExitTail, Next, Resume
<1>7. CASE Schedule
    BY <1>7 DEF Schedule, Next, Resume
<1>8. CASE UNCHANGED allVars
    BY <1>8 DEF allVars
<1> QED
    BY <1>1, <1>2, <1>3, <1>4, <1>5, <1>6, <1>7, <1>8 DEF KernelNext

LEMMA CrashKeepsPInv ==
    ASSUME PInv, NEW m \in Stops, Crash(m)
    PROVE  PInv'
<1>1. UNCHANGED <<next_proc_id, dead, waiting, queue, curr_proc, waiting_queue,
                  transmits>>
    BY DEF Crash
<1>2. NoDevices' /\ OnePlace'
    BY <1>1, PlacedUnchanged DEF PInv, NoDevices
<1>3. SchedOK' /\ FamilyPart'
    BY FamilyUnchanged DEF PInv, IInv, SchedOK, Crash, Created
<1> QED
    BY <1>2, <1>3, CrashType DEF PInv, IInv

-----------------------------------------------------------------------------
(* The contexts.  A process that has exited is not resumed, and idle is     *)
(* resumed in KernelStart once.                                             *)

ContextsOK ==
    /\ cpu \in Live \cup {idle}
    /\ \A p \in Live \cup {idle} : ctx[p].at # "exit"
    /\ \A p \in Proc \ {idle} : ctx[p].at # "boot"
    /\ cpu = idle /\ kmode = "user" => ctx[idle].at # "boot"

Booting == ctx[idle].at = "boot"

\* A step of a process other than idle that gives up the machine.
LEMMA DispatchContexts ==
    ASSUME PInv, PInv', ContextsOK, cpu # idle,
           NEW at \in Points \ {"boot"}, NEW q, Dispatch(at, q),
           UNCHANGED next_proc_id, dead \subseteq dead',
           at = "exit" => curr_proc \in dead'
    PROVE  ContextsOK' /\ UNCHANGED Booting
<1>1. curr_proc # idle /\ curr_proc \in Proc /\ idle \in Proc
    BY ConstantsAssumption DEF PInv, IInv, SchedOK, TypeOK, idle, Proc
<1>2. /\ ctx' = [ctx EXCEPT ![curr_proc] = [at |-> at, stack |-> cpu]]
      /\ cpu' = curr_proc' /\ kmode' = "kernel"
    BY DEF Dispatch, SwitchExist
<1>3. \A p \in Proc : ctx'[p] = IF p = curr_proc THEN [at |-> at, stack |-> cpu]
                                                ELSE ctx[p]
    BY <1>2 DEF PInv, IInv, TypeOK
<1>4. Live' \subseteq Live /\ Live \subseteq Proc
    BY CreatedType DEF Live, Created, PInv, IInv
<1>5. curr_proc' \in Live' \cup {idle}
    BY DEF PInv, OnePlace
<1>6. curr_proc \in dead' => curr_proc \notin Live'
    BY DEF Live
<1>7. \A p \in Live' \cup {idle} : ctx'[p].at # "exit"
    BY <1>1, <1>3, <1>4, <1>6 DEF ContextsOK
<1>8. \A p \in Proc \ {idle} : ctx'[p].at # "boot"
    BY <1>3 DEF ContextsOK
<1>9. ctx'[idle] = ctx[idle]
    BY <1>1, <1>3
<1> QED
    BY <1>2, <1>5, <1>7, <1>8, <1>9 DEF ContextsOK, Booting

\* The running process goes on, in user mode.
LEMMA ReturnContexts ==
    ASSUME PInv, ContextsOK, ctx' = [ctx EXCEPT ![cpu] = Stale],
           UNCHANGED <<cpu, next_proc_id, dead>>
    PROVE  /\ ContextsOK'
           /\ cpu = idle => ~Booting'
           /\ cpu # idle => UNCHANGED Booting
<1>1. cpu \in Proc /\ idle \in Proc
    BY ConstantsAssumption DEF PInv, IInv, TypeOK, idle, Proc
<1>2. \A p \in Proc : ctx'[p] = IF p = cpu THEN Stale ELSE ctx[p]
    BY DEF PInv, IInv, TypeOK
<1>3. Stale.at = "none"
    BY DEF Stale
<1>4. Live' = Live /\ Live \subseteq Proc
    BY CreatedType DEF Live, Created, PInv, IInv
<1> QED
    BY <1>1, <1>2, <1>3, <1>4 DEF ContextsOK, Booting

LEMMA SameContexts ==
    ASSUME ContextsOK, UNCHANGED <<cpu, ctx, next_proc_id, dead>>,
           kmode' = kmode \/ kmode' \in Stops
    PROVE  ContextsOK' /\ UNCHANGED Booting
  BY DEF ContextsOK, Booting, Live, Created, Stops

\* Collect is never the first thing idle does.
LEMMA CollectContexts ==
    ASSUME PInv, ContextsOK, Collect(curr_proc), cpu = idle => ~Booting
    PROVE  ContextsOK' /\ UNCHANGED Booting
<1>1. CASE Crash("fault")
    BY <1>1, SameContexts DEF Crash, Stops
<1>2. CASE /\ ctx' = [ctx EXCEPT ![cpu] = Stale]
           /\ UNCHANGED <<cpu, next_proc_id, dead>>
  <2>1. /\ ContextsOK'
        /\ cpu = idle => ~Booting'
        /\ cpu # idle => UNCHANGED Booting
      BY <1>2, ReturnContexts
  <2> QED
      BY <2>1 DEF Booting
<1> QED
    BY <1>1, <1>2 DEF Collect

LEMMA ClockContexts ==
    ASSUME PInv, ContextsOK, NEW i \in Nat \ {0}, ClockFrom(i),
           cpu = idle => ~Booting
    PROVE  ContextsOK' /\ UNCHANGED Booting
<1>1. Expiring(i) = {}
    BY DEF PInv, NoDevices, Expiring
<1>2. Tick_ /\ UNCHANGED <<next_proc_id, dead>>
    BY <1>1 DEF ClockFrom
<1>3. ctx' = [ctx EXCEPT ![cpu] = Stale] /\ UNCHANGED cpu
    BY <1>2 DEF Tick_
<1>4. /\ ContextsOK'
      /\ cpu = idle => ~Booting'
      /\ cpu # idle => UNCHANGED Booting
    BY <1>2, <1>3, ReturnContexts
<1> QED
    BY <1>4 DEF Booting

LEMMA ForkContexts ==
    ASSUME PInv, PInv', ContextsOK, ForkFunc
    PROVE  ContextsOK' /\ UNCHANGED Booting
<1> DEFINE c == next_proc_id
<1>1. /\ curr_proc # idle /\ curr_proc \in Proc /\ idle \in Proc /\ c \in Proc
      /\ c # idle /\ cpu # idle
    BY ConstantsAssumption
    DEF PInv, IInv, SchedOK, TypeOK, idle, Proc, ForkFunc, UserCall
<1>2. /\ ctx' = [ctx EXCEPT ![curr_proc] = [at |-> "fork", stack |-> cpu],
                            ![c] = [at |-> "fork", stack |-> c]]
      /\ cpu' = curr_proc' /\ kmode' = "kernel"
    BY DEF ForkFunc, SwitchFork
<1>3. \A p \in Proc : \/ p \in {curr_proc, c} /\ ctx'[p].at = "fork"
                      \/ p \notin {curr_proc, c} /\ ctx'[p] = ctx[p]
    BY <1>1, <1>2 DEF PInv, IInv, TypeOK
<1>4. Live' \subseteq Live \cup {c} /\ Live \subseteq Proc
  <2>1. Live \subseteq Proc
      BY CreatedType DEF Live, PInv, IInv
  <2>2. next_proc_id' = c + 1 /\ dead' = dead /\ c \in Nat
      BY DEF ForkFunc, PInv, IInv, TypeOK
  <2> QED
      BY <2>1, <2>2 DEF Live, Created
<1>5. curr_proc' \in Live' \cup {idle}
    BY DEF PInv, OnePlace
<1> HIDE DEF c
<1>6. \A p \in Live' \cup {idle} : ctx'[p].at # "exit"
    BY <1>1, <1>3, <1>4 DEF ContextsOK
<1>7. \A p \in Proc \ {idle} : ctx'[p].at # "boot"
    BY <1>3 DEF ContextsOK
<1>8. ctx'[idle] = ctx[idle]
    BY <1>1, <1>3
<1> QED
    BY <1>2, <1>5, <1>6, <1>7, <1>8 DEF ContextsOK, Booting

LEMMA ExitContexts ==
    ASSUME PInv, PInv', ContextsOK, NEW status \in Int, ExitFunc(status), cpu # idle
    PROVE  ContextsOK' /\ UNCHANGED Booting
<1>1. TypeOK
    BY DEF PInv, IInv
<1>2. dead' = dead \cup {curr_proc} /\ UNCHANGED next_proc_id
    BY <1>1, ExitEffect DEF ExitFunc
<1>3. PICK q : Dispatch("exit", q)
    BY <1>1, ExitEffect
<1> QED
    BY <1>2, <1>3, DispatchContexts DEF Points

\* Every step keeps the contexts in order, and only the return from the switch in
\* KernelStart ends the boot.
LEMMA ContextsStep ==
    ASSUME Calls \cap {"Delay", "TtyWrite"} = {}, PInv, PInv', ContextsOK,
           [Next]_vars
    PROVE  /\ ContextsOK'
           /\ \/ UNCHANGED Booting
              \/ ResumeReturn /\ Resumes("boot") /\ cpu = idle
<1>0. TypeOK /\ NoDevices
    BY DEF PInv, IInv
<1>1. CASE ForkFunc
    BY <1>1, ForkContexts
<1>2. ASSUME NEW s \in Status, Exit(s)
      PROVE  ContextsOK' /\ UNCHANGED Booting
    BY <1>2, ExitContexts DEF Exit, UserCall
<1>3. CASE TrapIllegalHandler \/ TrapMathHandler \/ TrapMemoryHandler
  <2>1. CASE UNCHANGED vars
      BY <2>1, SameContexts DEF vars
  <2>2. CASE ExitFunc(1) /\ cpu # idle
      BY <2>2, ExitContexts
  <2> QED
      BY <1>3, <2>1, <2>2
      DEF TrapIllegalHandler, TrapMathHandler, TrapMemoryHandler, UserCall
<1>4. CASE WaitFunc
  <2>1. CASE Collect(curr_proc)
      BY <1>4, <2>1, CollectContexts DEF WaitFunc, UserCall
  <2>2. CASE UNCHANGED vars
      BY <2>2, SameContexts DEF vars
  <2>3. CASE Dispatch("wait", queue) /\ UNCHANGED <<next_proc_id, dead>>
      BY <1>4, <2>3, DispatchContexts DEF WaitFunc, UserCall, Points
  <2> QED
      BY <1>4, <2>1, <2>2, <2>3 DEF WaitFunc
<1>5. CASE TtyReadFunc \/ ForkUnmapped \/ Stopped \/ UNCHANGED vars
    BY <1>5, SameContexts
    DEF TtyReadFunc, ForkUnmapped, Crash, Stopped, Stops, vars
<1>6. CASE TrapClockHandler
  <2>1. cpu = idle => ~Booting
      BY <1>6 DEF TrapClockHandler, ContextsOK, Booting
  <2> QED
      BY <1>6, <2>1, ClockContexts DEF TrapClockHandler
<1>7. CASE ResumeWait
  <2>1. cpu = idle => ~Booting
      BY <1>7 DEF ResumeWait, Resumes, Booting
  <2> QED
      BY <1>7, <2>1, CollectContexts DEF ResumeWait
<1>8. CASE ResumeClock
  <2>1. cpu = idle => ~Booting
      BY <1>8 DEF ResumeClock, Resumes, Booting
  <2>2. ASSUME NEW i \in 1 .. Len(waiting_queue) + 1, ClockFrom(i)
        PROVE  ContextsOK' /\ UNCHANGED Booting
    <3>1. i \in Nat \ {0}
        BY <1>0 DEF TypeOK
    <3> QED
        BY <2>1, <2>2, <3>1, ClockContexts
  <2>3. CASE Crash("undefined")
      BY <2>3, SameContexts DEF Crash, Stops
  <2> QED
      BY <1>8, <2>2, <2>3 DEF ResumeClock
<1>9. CASE ResumeExit \/ ResumeForeign
    BY <1>9, SameContexts DEF ResumeExit, ResumeForeign, Crash, Stops
<1>10. CASE ResumeReturn
  <2>1. /\ ContextsOK'
        /\ cpu = idle => ~Booting'
        /\ cpu # idle => UNCHANGED Booting
      BY <1>10, ReturnContexts DEF ResumeReturn
  <2>2. PICK at \in {"boot", "fork", "delay", "ttywrite", "ttytransmit"} :
            Resumes(at)
      BY <1>10 DEF ResumeReturn
  <2>3. ctx[cpu].at = at
      BY <2>2 DEF Resumes
  <2>4. CASE cpu # idle
      BY <2>1, <2>4
  <2>5. CASE cpu = idle /\ at # "boot"
      BY <2>1, <2>3, <2>5 DEF Booting
  <2>6. CASE cpu = idle /\ at = "boot"
      BY <1>10, <2>1, <2>2, <2>6
  <2> QED
      BY <2>4, <2>5, <2>6
<1> QED
    BY <1>0, <1>1, <1>2, <1>3, <1>4, <1>5, <1>6, <1>7, <1>8, <1>9, <1>10,
       NoDeviceCalls DEF Next, Resume

-----------------------------------------------------------------------------
(* Memory.  The table of init is complete when init exits, and stays so     *)
(* until idle loads init's program again.                                   *)

TablesOK ==
    /\ DOMAIN region0 = Proc
    /\ init \in dead /\ Booting => M!Usable(init)

KInv == PInv /\ ParentOlder /\ ContextsOK /\ TablesOK

\* The processes' part of the invariant.
LEMMA ProcessesKeep ==
    ASSUME Calls \cap {"Delay", "TtyWrite"} = {}, KInv, [KernelNext]_allVars
    PROVE  /\ PInv' /\ ParentOlder' /\ ContextsOK'
           /\ \/ UNCHANGED Booting
              \/ ResumeReturn /\ Resumes("boot") /\ cpu = idle
<1>1. PInv /\ ParentOlder /\ ContextsOK /\ TypeOK /\ SchedOK
    BY DEF KInv, PInv, IInv
<1>2. CASE [Next]_vars
  <2>1. PInv' /\ ParentOlder'
      BY <1>1, <1>2, PInvStep, OlderStep
  <2> QED
      BY <1>1, <1>2, <2>1, ContextsStep
<1>3. CASE Crash("undefined")
  <2>1. PInv'
      BY <1>1, <1>3, CrashKeepsPInv DEF Stops
  <2>2. ParentOlder'
      BY <1>1, <1>3 DEF Crash, ParentOlder
  <2>3. ContextsOK' /\ UNCHANGED Booting
      BY <1>1, <1>3, SameContexts DEF Crash, Stops
  <2> QED
      BY <2>1, <2>2, <2>3
<1> QED
    BY <1>2, <1>3, StepOfKernel

\* The pair of curr_proc and cpu are callers in the sense of Memory.tla.
LEMMA IsCaller ==
    ASSUME KInv, Usable, cpu # idle
    PROVE  /\ <<curr_proc, cpu>> \in M!Callers
           /\ curr_proc \in Live /\ curr_proc # idle /\ cpu \in Live
           /\ curr_proc \in Proc
<1>1. curr_proc \in Live /\ cpu \in Live /\ curr_proc # idle /\ curr_proc \in Proc
    BY DEF KInv, PInv, IInv, SchedOK, OnePlace, ContextsOK, TypeOK
<1>2. "Rotate" \in Ops
    BY DEF Ops
<1> QED
    BY <1>1, <1>2 DEF M!Callers, Usable, M!idle, idle

\* Nothing of Memory.tla changes.
LEMMA MemoryStutter ==
    ASSUME UNCHANGED <<memVars, next_proc_id, dead, Booting>>
    PROVE  UNCHANGED M!vars
  BY DEF memVars, M!vars, M!memVars, Live, Created, Booting

LEMMA ForkMemoryStep ==
    ASSUME KInv, Fork, UNCHANGED Booting
    PROVE  TablesOK' /\ M!Next
<1> DEFINE c == <<curr_proc, cpu>>
<1>1. /\ UserCall("Fork") /\ cpu # idle /\ Usable /\ next_proc_id <= MaxPid
      /\ next_proc_id' = next_proc_id + 1 /\ UNCHANGED dead
      /\ M!ForkMemory(curr_proc, cpu, next_proc_id)
    BY DEF Fork, ForkFunc, UserCall
<1>2. c \in M!Callers /\ c[1] = curr_proc /\ c[2] = cpu
    BY <1>1, IsCaller
<1>3. next_proc_id \in Nat /\ next_proc_id # init /\ next_proc_id # idle
      /\ dead \subseteq Created
    BY DEF KInv, PInv, IInv, TypeOK, FamilyPart, FreshApart, init, idle
<1>4. (Live \cup {idle})' = (Live \cup {idle}) \cup {next_proc_id}
    BY <1>1, <1>3 DEF Live, Created
<1>5. "Fork" \in Ops
    BY <1>1 DEF UserCall, Ops
<1>6. M!Fork(c[1], c[2])
    BY <1>1, <1>2, <1>4, <1>5 DEF M!Fork, Booting
<1>7. M!Next
    BY <1>2, <1>6 DEF M!Next, M!Fork, M!ForkMemory, M!CanFork, M!BuildRegion0
<1>8. DOMAIN region0' = DOMAIN region0
      /\ (init \in Proc => region0'[init] = region0[init])
    BY <1>1, <1>3 DEF M!ForkMemory, KInv, TablesOK
<1>9. TablesOK'
    BY <1>1, <1>8, ConstantsAssumption
    DEF KInv, TablesOK, M!Usable, Booting, init, Proc
<1> QED
    BY <1>7, <1>9

\* An exit: of the process that the kernel takes for the running one.
LEMMA ExitMemoryStep ==
    ASSUME KInv, Terminate, UNCHANGED Booting
    PROVE  TablesOK' /\ M!Next
<1> DEFINE c == <<curr_proc, cpu>>
<1>1. /\ cpu # idle /\ Usable /\ M!ExitMemory(curr_proc)
      /\ \E status \in Int : ExitFunc(status)
  <2>1. CASE \E s \in Status : Exit(s)
      BY <2>1 DEF Terminate, Exit, UserCall
  <2>2. CASE TrapIllegalHandler \/ TrapMathHandler
      BY <2>2 DEF Terminate, TrapIllegalHandler, TrapMathHandler, UserCall
  <2>3. CASE TrapMemoryHandler /\ kmode' = "kernel"
      BY <2>3 DEF Terminate, TrapMemoryHandler, UserCall, vars
  <2> QED
      BY <2>1, <2>2, <2>3 DEF Terminate
<1>2. UNCHANGED next_proc_id /\ dead' = dead \cup {curr_proc}
    BY <1>1, ExitEffect DEF ExitFunc, KInv, PInv, IInv
<1>3. c \in M!Callers /\ c[1] = curr_proc /\ c[2] = cpu /\ curr_proc # idle
    BY <1>1, IsCaller
<1>4. (Live \cup {idle})' = (Live \cup {idle}) \ {curr_proc}
    BY <1>2, <1>3 DEF Live, Created
<1>5. "Exit" \in Ops
    BY DEF Ops
<1>6. M!Exit(c[1])
    BY <1>1, <1>2, <1>3, <1>4, <1>5 DEF M!Exit, Booting
<1>7. M!Next
    BY <1>3, <1>6 DEF M!Next, M!Exit, M!ExitMemory
<1>8. UNCHANGED region0 /\ M!Usable(curr_proc)
    BY <1>1 DEF M!ExitMemory, Usable
<1>9. TablesOK'
    BY <1>2, <1>8 DEF KInv, TablesOK, M!Usable, Booting
<1> QED
    BY <1>7, <1>9

LEMMA GrowMemoryStep ==
    ASSUME KInv, NEW v \in M!Page, Grow(v)
    PROVE  TablesOK' /\ M!Next
<1> DEFINE c == <<curr_proc, cpu>>
<1>1. /\ cpu # idle /\ Usable /\ M!GrowMemory(curr_proc, cpu, v)
      /\ v >= M!StackLimit - MaxStack /\ "Grow" \in Ops
      /\ UNCHANGED vars
    BY DEF Grow, UserCall, Ops
<1>2. /\ c \in M!Callers /\ c[1] = curr_proc /\ c[2] = cpu
      /\ curr_proc \in Live
    BY <1>1, IsCaller
<1>3. UNCHANGED <<next_proc_id, dead, ctx>>
    BY <1>1 DEF vars
<1>4. M!Grow(c[1], c[2], v)
    BY <1>1, <1>2, <1>3 DEF M!Grow, Live, Created
<1>5. M!Next
    BY <1>2, <1>4 DEF M!Next, M!Grow, M!GrowMemory
<1>6. DOMAIN region0' = DOMAIN region0
      /\ \A p \in Proc \ {curr_proc} : region0'[p] = region0[p]
    BY <1>1 DEF M!GrowMemory, KInv, TablesOK
<1>7. init \in Proc /\ (init \in dead => init # curr_proc)
    BY <1>2, ConstantsAssumption DEF Live, init, Proc
<1>8. TablesOK'
    BY <1>3, <1>6, <1>7 DEF KInv, TablesOK, M!Usable, Booting
<1> QED
    BY <1>5, <1>8

LEMMA ExecMemoryStep ==
    ASSUME KInv, NEW low \in ProgramPages, NEW stack \in ArgPages,
           ExecFunc(low, stack)
    PROVE  TablesOK' /\ M!Next
<1> DEFINE c == <<curr_proc, cpu>>
<1>1. /\ cpu # idle /\ Usable /\ M!ExecMemory(curr_proc, low, stack)
      /\ "Exec" \in Ops /\ UNCHANGED vars
    BY DEF ExecFunc, UserCall, Ops
<1>2. /\ c \in M!Callers /\ c[1] = curr_proc /\ c[2] = cpu
      /\ curr_proc \in Live
    BY <1>1, IsCaller
<1>3. UNCHANGED <<next_proc_id, dead, ctx>>
    BY <1>1 DEF vars
<1>4. M!Exec(c[1])
    BY <1>1, <1>2, <1>3 DEF M!Exec, Live, Created
<1>5. M!Next
    BY <1>2, <1>4 DEF M!Next, M!Exec, M!ExecMemory, M!LoadProgram
<1>6. DOMAIN region0' = DOMAIN region0
      /\ \A p \in Proc \ {curr_proc} : region0'[p] = region0[p]
    BY <1>1 DEF M!ExecMemory, M!LoadProgram, M!memVars, KInv, TablesOK
<1>7. init \in Proc /\ (init \in dead => init # curr_proc)
    BY <1>2, ConstantsAssumption DEF Live, init, Proc
<1>8. TablesOK'
    BY <1>3, <1>6, <1>7 DEF KInv, TablesOK, M!Usable, Booting
<1> QED
    BY <1>5, <1>8

LEMMA BrkMemoryStep ==
    ASSUME KInv, NEW b \in Breaks, BrkFunc(b)
    PROVE  TablesOK' /\ M!Next
<1> DEFINE c == <<curr_proc, cpu>>
<1>1. /\ cpu # idle /\ Usable /\ M!BrkMemory(curr_proc, b)
      /\ num_free_pages <= MaxCount
      /\ "Brk" \in Ops /\ UNCHANGED vars
    BY DEF BrkFunc, UserCall, Ops
<1>2. c \in M!Callers /\ c[1] = curr_proc /\ c[2] = cpu
    BY <1>1, IsCaller
<1>3. UNCHANGED <<next_proc_id, dead, ctx>>
    BY <1>1 DEF vars
<1>4. M!Brk(c[1], b)
    BY <1>1, <1>2, <1>3 DEF M!Brk, Live, Created
<1>5. M!Next
    BY <1>2, <1>4 DEF M!Next, M!Brk, M!BrkMemory
<1>6. DOMAIN region0' = DOMAIN region0
      /\ \A p \in Proc \ {idle} : region0'[p] = region0[p]
    BY <1>1 DEF M!BrkMemory, M!memVars, KInv, TablesOK, M!idle, idle
<1>7. init \in Proc /\ init # idle
    BY ConstantsAssumption DEF init, idle, Proc
<1>8. TablesOK'
    BY <1>3, <1>6, <1>7 DEF KInv, TablesOK, M!Usable, Booting
<1> QED
    BY <1>5, <1>8

\* idle runs for the first time: everybody has exited, init too.
LEMMA FirstIdleStep ==
    ASSUME KInv, FirstIdle, cpu = idle
    PROVE  TablesOK' /\ M!Next
<1>1. /\ Booting /\ M!ReloadMemory /\ UNCHANGED <<next_proc_id, dead>>
      /\ ctx' = [ctx EXCEPT ![cpu] = Stale]
    BY DEF FirstIdle, ResumeReturn, Resumes, Booting
<1>2. Live = {}
    BY IdleOrLive DEF KInv
<1>3. init \in dead /\ idle \in Proc /\ init # idle
  <2>1. init \in Created /\ init # idle
      BY DEF KInv, PInv, IInv, TypeOK, Created, init, idle
  <2> QED
      BY <1>2, <2>1, ConstantsAssumption DEF Live, idle, Proc
<1>4. M!Usable(init)
    BY <1>1, <1>3 DEF KInv, TablesOK
<1>5. ~Booting'
    BY <1>1, <1>3 DEF KInv, PInv, IInv, TypeOK, Booting, Stale
<1>6. "Idle" \in Ops
    BY DEF Ops
<1>7. M!Reload
    BY <1>1, <1>2, <1>4, <1>5, <1>6
    DEF M!Reload, Booting, M!idle, idle, M!init, init, Live, Created
<1>8. DOMAIN region0' = DOMAIN region0
    BY <1>1 DEF M!ReloadMemory, M!LoadProgram, M!memVars
<1>9. TablesOK'
    BY <1>5, <1>8 DEF KInv, TablesOK, Booting
<1> QED
    BY <1>7, <1>9 DEF M!Next

LEMMA MemoryStep ==
    ASSUME Calls \cap {"Delay", "TtyWrite"} = {}, KInv, [KernelNext]_allVars
    PROVE  TablesOK' /\ [M!Next]_(M!vars)
<1>1. ASSUME UNCHANGED <<memVars, next_proc_id, dead>>, UNCHANGED Booting
      PROVE  TablesOK' /\ UNCHANGED M!vars
  <2>1. UNCHANGED M!vars
      BY <1>1, MemoryStutter
  <2> QED
      BY <1>1, <2>1 DEF KInv, TablesOK, memVars, M!Usable, Booting
<1>2. \/ UNCHANGED Booting
      \/ ResumeReturn /\ Resumes("boot") /\ cpu = idle
    BY ProcessesKeep
<1>3. kmode = "user" => UNCHANGED Booting
    BY <1>2 DEF Resumes
<1>4. ASSUME \/ Starved \/ ForkFails \/ IdleLost
             \/ \E b \in Breaks : BrkOverrun(b)
      PROVE  TablesOK' /\ UNCHANGED M!vars
  <2>1. Crash("undefined") /\ UNCHANGED memVars
      BY <1>4 DEF Starved, ForkFails, IdleLost, BrkOverrun
  <2> QED
      BY <1>1, <2>1 DEF Crash, Booting
<1>5. CASE Fork
    BY <1>3, <1>5, ForkMemoryStep DEF Fork, ForkFunc, UserCall
<1>6. CASE Terminate
  <2>1. kmode = "user"
      BY <1>6 DEF Terminate, Exit, TrapIllegalHandler, TrapMathHandler,
                  TrapMemoryHandler, UserCall
  <2> QED
      BY <1>3, <1>6, <2>1, ExitMemoryStep
<1>7. ASSUME \/ \E v \in M!Page : Grow(v)
             \/ \E b \in Breaks : BrkFunc(b)
      PROVE  TablesOK' /\ M!Next
    BY <1>7, GrowMemoryStep, BrkMemoryStep
<1>8. ASSUME NEW low \in ProgramPages, NEW stack \in ArgPages,
             ExecFunc(low, stack)
      PROVE  TablesOK' /\ M!Next
    BY <1>8, ExecMemoryStep
<1>9. CASE FirstIdle
  <2>1. ctx[cpu].at = "boot"
      BY <1>9 DEF FirstIdle, Resumes
  <2>2. cpu = idle
      BY <2>1 DEF KInv, ContextsOK, PInv, IInv, TypeOK
  <2> QED
      BY <1>9, <2>2, FirstIdleStep
<1>10. CASE ExitTail
  <2>1. ctx[cpu].at = "exit"
      BY <1>10 DEF ExitTail, ResumeExit, Resumes
  <2> QED
      BY <2>1 DEF KInv, ContextsOK
<1>11. CASE Schedule
  <2>1. UNCHANGED memVars
      BY <1>11 DEF Schedule, ResumeReturn
  <2>2. TypeOK /\ NoDevices
      BY DEF KInv, PInv, IInv
  <2>3. UNCHANGED <<next_proc_id, dead>>
      BY <1>11, <2>2, NoDeviceCalls
      DEF Schedule, WaitFunc, Collect, Crash, TtyReadFunc, TrapClockHandler,
          ClockFrom, ResumeReturn, ResumeWait, ResumeClock, ResumeForeign,
          Stopped, vars
  <2>4. UNCHANGED Booting
    <3>1. CASE UNCHANGED Booting
        BY <3>1
    <3>2. CASE ResumeReturn /\ Resumes("boot") /\ cpu = idle
      <4>1. kmode = "kernel" /\ kmode' = "user" /\ ctx[cpu] = [at |-> "boot", stack |-> cpu]
          BY <3>2 DEF Resumes, ResumeReturn
      <4>2. FALSE
          BY <1>11, <2>2, <3>2, <4>1, NoDeviceCalls
          DEF Schedule, WaitFunc, UserCall, TtyReadFunc, TrapClockHandler,
              ResumeWait, ResumeClock, ResumeForeign, Resumes, Stopped, Stops, Crash
      <4> QED
          BY <4>2
    <3> QED
        BY <1>2, <3>1, <3>2
  <2> QED
      BY <1>1, <2>1, <2>3, <2>4
<1>12. CASE UNCHANGED allVars
    BY <1>1, <1>12 DEF allVars, vars, Booting
<1> QED
    BY <1>4, <1>5, <1>6, <1>7, <1>8, <1>9, <1>10, <1>11, <1>12 DEF KernelNext

-----------------------------------------------------------------------------
(* The invariant holds, and the kernel implements the two specifications.   *)

LEMMA KInvInit ==
    ASSUME KernelInit
    PROVE  KInv
<1>1. Init /\ M!Init
    BY DEF KernelInit
<1>2. PInv
    BY <1>1, IInvInit, PInvInit
<1>3. ParentOlder
    BY <1>1 DEF Init, create_pcb, ParentOlder, NULL, Proc
<1>4. /\ ctx = SwitchNewProc /\ dead = {} /\ cpu = init
      /\ Live \subseteq Proc /\ init \in Live /\ idle \in Proc /\ init # idle
    BY <1>1, <1>2, CreatedType
    DEF Init, Live, Created, init, idle, PInv, IInv
<1>5. ContextsOK
    BY <1>4 DEF ContextsOK, SwitchNewProc, Stale
<1>6. TablesOK
    BY <1>1, <1>4 DEF TablesOK, M!Init, M!Proc, Proc
<1> QED
    BY <1>2, <1>3, <1>5, <1>6 DEF KInv

LEMMA KInvCorrect ==
    ASSUME Calls \cap {"Delay", "TtyWrite"} = {}
    PROVE  KernelSpec => []KInv
<1>1. KInv /\ [KernelNext]_allVars => KInv'
    BY ProcessesKeep, MemoryStep DEF KInv
<1> QED
    BY <1>1, KInvInit, PTL DEF KernelSpec

\* For programs that neither Delay nor write to a terminal, all that the kernel
\* does to frames and page tables is an operation of Memory.tla, done for a live
\* process while a live process runs, or nothing: the processes of Processes.tla
\* never free or load memory in the name of one that has exited.
THEOREM MemoryRefinement ==
    ASSUME Calls \cap {"Delay", "TtyWrite"} = {}
    PROVE  KernelSpec => MemorySpec
<1>1. KInv /\ [KernelNext]_allVars => [M!Next]_(M!vars)
    BY MemoryStep
<1> QED
    BY <1>1, KInvCorrect, PTL DEF KernelSpec, KernelInit, MemorySpec, M!Spec

LEMMA KernelChildless ==
    ASSUME Calls \cap {"Delay", "TtyWrite"} = {}
    PROVE  KernelSpec => []IdleChildless
<1>1. KernelInit => IdleChildless
    BY ConstantsAssumption
    DEF KernelInit, Init, create_pcb, IdleChildless, idle, Proc
<1>2. ASSUME KInv, IdleChildless, [KernelNext]_allVars
      PROVE  IdleChildless'
  <2>1. CASE [Next]_vars
      BY <1>2, <2>1, ChildlessStep DEF KInv, PInv
  <2>2. CASE Crash("undefined")
      BY <1>2, <2>2 DEF Crash, IdleChildless
  <2> QED
      BY <1>2, <2>1, <2>2, StepOfKernel
<1> QED
    BY <1>1, <1>2, KInvCorrect, PTL DEF KernelSpec

\* With frames that run out, Fork that fails and programs that are stopped by a
\* missing frame, the processes still behave as Family.tla says, are in one place
\* each, and leave the machine idle only after the last exit.
THEOREM ProcessesWithMemory ==
    ASSUME Calls \cap {"Delay", "TtyWrite"} = {}
    PROVE  KernelSpec => /\ FamilySpec
                         /\ [](LiveInOnePlace /\ IdleAfterLastExit)
<1>1. KernelInit => F!Init
    BY FamilyInit DEF KernelInit
<1>2. ASSUME KInv, IdleChildless, [KernelNext]_allVars
      PROVE  [F!Next]_(F!vars)
  <2>1. CASE [Next]_vars
      BY <1>2, <2>1, FamilyStep DEF KInv
  <2>2. CASE Crash("undefined")
      BY <2>2, FamilyStutter DEF Crash
  <2> QED
      BY <1>2, <2>1, <2>2, StepOfKernel
<1>3. KInv => LiveInOnePlace /\ IdleAfterLastExit
    BY PlacedOnce, IdleOrLive DEF KInv, IdleAfterLastExit
<1> QED
    BY <1>1, <1>2, <1>3, KInvCorrect, KernelChildless, PTL
    DEF KernelSpec, FamilySpec, F!Spec

-----------------------------------------------------------------------------
(* The lemmas and the theorems about Memory.tla hold of the memory of the   *)
(* kernel.                                                                  *)

MP == INSTANCE Memory_proofs WITH
        live <- Live \cup {idle},
        booting <- ctx[idle].at = "boot"

LEMMA MemorySizes == MP!MemoryAssumption
  BY KernelAssumption DEF M!MemoryAssumption, MP!MemoryAssumption

LEMMA FindTablePage ==
    ASSUME NEW r1, \E v \in 0 .. PAGE_TABLE_LEN - 3 : r1[v] = M!Invalid
    PROVE  /\ M!findFreeVirtualPage(r1) \in M!Page
           /\ r1[M!findFreeVirtualPage(r1)] = M!Invalid
<1>1. \E v \in 0 .. PAGE_TABLE_LEN - 3 : r1[v] = MP!Invalid
    BY DEF M!Invalid, MP!Invalid
<1>2. /\ MP!findFreeVirtualPage(r1) \in MP!Page
      /\ r1[MP!findFreeVirtualPage(r1)] = MP!Invalid
    BY <1>1, MemorySizes, MP!FindFreeVirtualPage
<1>3. MP!findFreeVirtualPage(r1) = M!findFreeVirtualPage(r1)
    BY DEF M!findFreeVirtualPage, MP!findFreeVirtualPage, M!Max, MP!Max,
           M!Invalid, MP!Invalid
<1> QED
    BY <1>2, <1>3 DEF M!Invalid, MP!Invalid, M!Page, MP!Page

-----------------------------------------------------------------------------
(* TablesKept, for all programs.  Only Fork and the end of an ExitFunc that *)
(* goes on after the exit change Region 1.  The machine stops in the latter *)
(* and so frees the table of one process that has exited, once.             *)

\* A context saved in SwitchExit is that of a process that has exited, and the
\* process that is resumed is curr_proc.
ExitMarked ==
    /\ \A p \in Proc : ctx[p].at = "exit" => p \in dead
    /\ idle \notin dead
    /\ kmode = "kernel" => cpu = curr_proc

LEMMA SwitchMarked ==
    ASSUME TypeOK, ExitMarked, NEW at, NEW next, SwitchExist(at, next),
           dead \subseteq dead', idle \notin dead',
           at = "exit" => curr_proc \in dead'
    PROVE  ExitMarked'
  BY DEF SwitchExist, ExitMarked, TypeOK

LEMMA ReturnMarked ==
    ASSUME TypeOK, ExitMarked, ctx' = [ctx EXCEPT ![cpu] = Stale],
           UNCHANGED dead, kmode' # "kernel"
    PROVE  ExitMarked'
  BY DEF ExitMarked, TypeOK, Stale

LEMMA SameMarked ==
    ASSUME ExitMarked, UNCHANGED <<ctx, dead, cpu, curr_proc>>,
           kmode' = kmode \/ kmode' \in Stops
    PROVE  ExitMarked'
  BY DEF ExitMarked, Stops

LEMMA ClockMarked ==
    ASSUME TypeOK, ExitMarked, NEW i, ClockFrom(i)
    PROVE  ExitMarked'
<1>1. UNCHANGED dead
    BY DEF ClockFrom
<1>2. CASE Tick_
    BY <1>1, <1>2, ReturnMarked DEF Tick_
<1>3. ASSUME NEW j \in Expiring(i), SwitchExist("clock", waiting_queue[j])
      PROVE  ExitMarked'
    BY <1>1, <1>3, SwitchMarked DEF ExitMarked
<1> QED
    BY <1>2, <1>3 DEF ClockFrom

LEMMA ExitingMarked ==
    ASSUME TypeOK, SchedOK, ExitMarked, NEW status \in Int, ExitFunc(status),
           cpu # idle
    PROVE  ExitMarked'
<1>1. dead' = dead \cup {curr_proc} /\ curr_proc # idle
    BY ExitEffect DEF SchedOK
<1>2. PICK q : Dispatch("exit", q)
    BY ExitEffect
<1> QED
    BY <1>1, <1>2, SwitchMarked DEF Dispatch, ExitMarked

LEMMA MarkedStep ==
    ASSUME TypeOK, SchedOK, ExitMarked, [Next]_vars
    PROVE  ExitMarked'
<1>0. ASSUME NEW at \in Points \ {"exit"}, NEW q, Dispatch(at, q), UNCHANGED dead
      PROVE  ExitMarked'
    BY <1>0, SwitchMarked DEF Dispatch, ExitMarked
<1>1. CASE ForkFunc
  <2>1. /\ ctx' = [ctx EXCEPT
                      ![curr_proc] = [at |-> "fork", stack |-> cpu],
                      ![next_proc_id] = [at |-> "fork", stack |-> next_proc_id]]
        /\ UNCHANGED dead /\ cpu' = curr_proc'
      BY <1>1 DEF ForkFunc, SwitchFork
  <2>2. \A p \in Proc : ctx'[p] = ctx[p] \/ ctx'[p].at = "fork"
      BY <2>1 DEF TypeOK
  <2> QED
      BY <2>1, <2>2 DEF ExitMarked
<1>2. ASSUME NEW s \in Status, Exit(s)
      PROVE  ExitMarked'
    BY <1>2, ExitingMarked DEF Exit, UserCall
<1>3. CASE TrapIllegalHandler \/ TrapMathHandler \/ TrapMemoryHandler
    BY <1>3, ExitingMarked, SameMarked
    DEF TrapIllegalHandler, TrapMathHandler, TrapMemoryHandler, UserCall, vars
<1>4. ASSUME Collect(curr_proc)
      PROVE  ExitMarked'
    BY <1>4, ReturnMarked, SameMarked DEF Collect, Crash, Stops
<1>5. CASE WaitFunc
    BY <1>0, <1>4, <1>5, SameMarked DEF WaitFunc, vars, Points
<1>6. ASSUME NEW n \in 1 .. MaxDelay, DelayFunc(n)
      PROVE  ExitMarked'
    BY <1>0, <1>6, SameMarked DEF DelayFunc, Crash, Stops, Points
<1>7. CASE TtyWriteFunc \/ TrapTTYTransmitHandler
    BY <1>0, <1>7
    DEF TtyWriteFunc, TrapTTYTransmitHandler, TtyTransmitFunc, Points
<1>8. CASE TrapClockHandler \/ ResumeClock
    BY <1>8, ClockMarked, SameMarked
    DEF TrapClockHandler, ResumeClock, Crash, Stops
<1>9. CASE ResumeReturn
    BY <1>9, ReturnMarked DEF ResumeReturn
<1>10. CASE ResumeWait
    BY <1>4, <1>10 DEF ResumeWait
<1>11. CASE \/ TtyReadFunc \/ ForkUnmapped \/ ResumeExit \/ ResumeForeign
            \/ Stopped \/ UNCHANGED vars
    BY <1>11, SameMarked
    DEF TtyReadFunc, ForkUnmapped, ResumeExit, ResumeForeign, Stopped, Crash,
        Stops, vars
<1> QED
    BY <1>1, <1>2, <1>3, <1>5, <1>6, <1>7, <1>8, <1>9, <1>10, <1>11
    DEF Next, Resume

\* The processes whose tables are in their pages: all that were ever created,
\* until the machine stops.
Holders == IF Running THEN Created \ {idle} ELSE Live

TablesHeld ==
    /\ DOMAIN region1 = M!Page /\ DOMAIN free_vpn = Proc
    /\ currKernelBrk = OrigBrk
    /\ \A v \in M!Page : v < OrigBrk => region1[v] # M!Invalid
    /\ \A p \in Holders :
          /\ free_vpn[p] \in M!Page /\ free_vpn[p] >= OrigBrk
          /\ region1[free_vpn[p]] = PAGE_TABLE_LEN + free_vpn[p]
          /\ \A q \in Holders \ {p} : free_vpn[q] # free_vpn[p]

LEMMA SameHeld ==
    ASSUME TablesHeld, UNCHANGED <<region1, free_vpn, currKernelBrk>>,
           Holders' \subseteq Holders
    PROVE  TablesHeld'
  BY DEF TablesHeld

LEMMA ForkHeld ==
    ASSUME IInv, TablesHeld, Fork
    PROVE  TablesHeld'
<1> DEFINE vpn == M!findFreeVirtualPage(region1)
           c == next_proc_id
<1>1. /\ region1' = [region1 EXCEPT ![vpn] = PAGE_TABLE_LEN + vpn]
      /\ free_vpn' = [free_vpn EXCEPT ![c] = vpn]
      /\ UNCHANGED currKernelBrk
      /\ \E v \in 0 .. PAGE_TABLE_LEN - 3 : region1[v] = M!Invalid
    BY DEF Fork, M!ForkMemory, M!BuildRegion0, M!CanFork
<1>2. vpn \in M!Page /\ region1[vpn] = M!Invalid
    BY <1>1, FindTablePage
<1>3. /\ Holders = Created \ {idle} /\ Holders' = Holders \cup {c}
      /\ c \in Proc /\ c \notin Holders /\ Holders \subseteq Proc
  <2>1. /\ Running /\ Running' /\ c <= MaxPid
        /\ next_proc_id' = c + 1 /\ c \in Nat \ {0}
      BY DEF Fork, ForkFunc, UserCall, SwitchFork, Running, Stops, IInv, TypeOK
  <2> QED
      BY <2>1, ConstantsAssumption DEF Holders, Created, Proc, idle
<1>4. PAGE_TABLE_LEN \in Nat \ {0} /\ OrigBrk \in Nat \ {0}
    BY KernelAssumption DEF M!MemoryAssumption
<1>5. vpn >= OrigBrk /\ PAGE_TABLE_LEN + vpn # M!Invalid
    BY <1>2, <1>4 DEF TablesHeld, M!Page, M!Invalid
<1> HIDE DEF vpn, c
<1>6. \A p \in Holders : free_vpn[p] # vpn /\ free_vpn[p] \in M!Page
    BY <1>2, <1>4 DEF TablesHeld, M!Page, M!Invalid
<1>7. free_vpn'[c] = vpn /\ \A p \in Holders : free_vpn'[p] = free_vpn[p]
    BY <1>1, <1>3 DEF TablesHeld
<1>8. /\ region1'[vpn] = PAGE_TABLE_LEN + vpn
      /\ \A v \in M!Page \ {vpn} : region1'[v] = region1[v]
    BY <1>1, <1>2 DEF TablesHeld
<1>9. DOMAIN region1' = M!Page /\ DOMAIN free_vpn' = Proc
    BY <1>1 DEF TablesHeld
<1>10. \A v \in M!Page : v < OrigBrk => region1'[v] # M!Invalid
    BY <1>5, <1>8 DEF TablesHeld
<1>11. ASSUME NEW p \in Holders'
       PROVE  /\ free_vpn'[p] \in M!Page /\ free_vpn'[p] >= OrigBrk
              /\ region1'[free_vpn'[p]] = PAGE_TABLE_LEN + free_vpn'[p]
              /\ \A q \in Holders' \ {p} : free_vpn'[q] # free_vpn'[p]
  <2>1. CASE p = c
      BY <1>2, <1>3, <1>5, <1>6, <1>7, <1>8, <2>1
  <2>2. CASE p \in Holders
      BY <1>3, <1>6, <1>7, <1>8, <2>2 DEF TablesHeld
  <2> QED
      BY <1>3, <2>1, <2>2
<1> QED
    BY <1>1, <1>9, <1>10, <1>11 DEF TablesHeld

\* Whose table the end of ExitFunc frees has exited.
LEMMA ExitTailHeld ==
    ASSUME IInv, ExitMarked, TablesHeld, ExitTail
    PROVE  TablesHeld'
<1> DEFINE vpn == free_vpn[curr_proc]
<1>1. /\ region1' = [region1 EXCEPT ![vpn] = M!Invalid]
      /\ UNCHANGED <<free_vpn, currKernelBrk, next_proc_id, dead>>
      /\ Running /\ ~Running'
      /\ ctx[cpu].at = "exit" /\ cpu = curr_proc
    BY DEF ExitTail, M!ExitTail, ResumeExit, Resumes, Crash, Running, Stops,
           ExitMarked
<1>2. /\ curr_proc \in Holders /\ curr_proc \notin Live
      /\ Holders' = Live /\ Live \subseteq Holders
  <2>1. curr_proc \in dead /\ curr_proc # idle /\ curr_proc \in Created
      BY <1>1 DEF ExitMarked, IInv, TypeOK, SchedOK
  <2> QED
      BY <1>1, <2>1 DEF Holders, Live, Created
<1>3. vpn \in M!Page /\ vpn >= OrigBrk
    BY <1>2 DEF TablesHeld
<1>4. \A p \in Live : free_vpn[p] # vpn
    BY <1>2 DEF TablesHeld
<1> HIDE DEF vpn
<1>5. \A v \in M!Page \ {vpn} : region1'[v] = region1[v]
    BY <1>1 DEF TablesHeld
<1>6. \A v \in M!Page : v < OrigBrk => v # vpn
    BY <1>3, KernelAssumption DEF M!MemoryAssumption, M!Page
<1> QED
    BY <1>1, <1>2, <1>4, <1>5, <1>6 DEF TablesHeld

LEMMA HeldStep ==
    ASSUME IInv, ExitMarked, TablesHeld, [KernelNext]_allVars
    PROVE  TablesHeld'
<1>1. ASSUME UNCHANGED <<region1, free_vpn, currKernelBrk, next_proc_id>>,
             dead \subseteq dead', Running' => Running
      PROVE  TablesHeld'
  <2>1. Holders' \subseteq Holders
      BY <1>1 DEF Holders, Live, Created
  <2> QED
      BY <1>1, <2>1, SameHeld
<1>2. ASSUME \/ Starved \/ ForkFails \/ IdleLost
             \/ \E b \in Breaks : BrkOverrun(b)
      PROVE  TablesHeld'
  <2>1. Crash("undefined") /\ UNCHANGED memVars
      BY <1>2 DEF Starved, ForkFails, IdleLost, BrkOverrun
  <2> QED
      BY <1>1, <2>1 DEF Crash, memVars, Running, Stops
<1>3. CASE Fork
    BY <1>3, ForkHeld
<1>4. CASE Terminate
  <2>1. Running
      BY <1>4 DEF Terminate, Exit, TrapIllegalHandler, TrapMathHandler,
                  TrapMemoryHandler, UserCall, Running, Stops
  <2>2. UNCHANGED next_proc_id /\ dead \subseteq dead'
      BY <1>4 DEF Terminate, Exit, TrapIllegalHandler, TrapMathHandler,
                  TrapMemoryHandler, ExitFunc, SwitchExit, vars
  <2> QED
      BY <1>1, <1>4, <2>1, <2>2 DEF Terminate, M!ExitMemory
<1>5. ASSUME \/ \E v \in M!Page : Grow(v)
             \/ \E b \in Breaks : BrkFunc(b)
      PROVE  TablesHeld'
  <2>1. UNCHANGED <<region1, free_vpn, currKernelBrk>> /\ UNCHANGED vars
      BY <1>5 DEF Grow, BrkFunc, M!GrowMemory, M!BrkMemory, M!memVars
  <2> QED
      BY <1>1, <2>1 DEF vars, Running
<1>6. ASSUME NEW low \in ProgramPages, NEW stack \in ArgPages,
             ExecFunc(low, stack)
      PROVE  TablesHeld'
  <2>1. UNCHANGED <<region1, free_vpn, currKernelBrk>> /\ UNCHANGED vars
      BY <1>6 DEF ExecFunc, M!ExecMemory, M!LoadProgram, M!memVars
  <2> QED
      BY <1>1, <2>1 DEF vars, Running
<1>7. CASE FirstIdle
  <2>1. UNCHANGED <<region1, free_vpn, currKernelBrk>>
      BY <1>7 DEF FirstIdle, M!ReloadMemory, M!LoadProgram, M!memVars
  <2> QED
      BY <1>1, <1>7, <2>1
      DEF FirstIdle, Resumes, ResumeReturn, Running, Stops
<1>8. CASE ExitTail
    BY <1>8, ExitTailHeld
<1>9. CASE Schedule
  <2>1. UNCHANGED <<next_proc_id, dead>>
      BY <1>9
      DEF Schedule, WaitFunc, Collect, Crash, DelayFunc, TtyWriteFunc,
          TrapTTYTransmitHandler, TtyTransmitFunc, TtyReadFunc,
          TrapClockHandler, ClockFrom, ResumeReturn, ResumeWait, ResumeClock,
          ResumeForeign, Stopped, vars
  <2>2. Running' => Running
      BY <1>9
      DEF Schedule, WaitFunc, DelayFunc, TtyWriteFunc, TrapTTYTransmitHandler,
          TtyReadFunc, UserCall, TrapClockHandler, ResumeReturn, ResumeWait,
          ResumeClock, ResumeForeign, Resumes, Stopped, vars, Running, Stops
  <2> QED
      BY <1>1, <1>9, <2>1, <2>2 DEF Schedule, memVars
<1>10. CASE UNCHANGED allVars
    BY <1>1, <1>10 DEF allVars, vars, memVars, Running
<1> QED
    BY <1>2, <1>3, <1>4, <1>5, <1>6, <1>7, <1>8, <1>9, <1>10 DEF KernelNext

LEMMA HeldInit ==
    ASSUME KernelInit
    PROVE  IInv /\ ExitMarked /\ TablesHeld
<1> DEFINE vpn == M!findFreeVirtualPage(M!initPT)
<1>1. Init /\ M!Init
    BY DEF KernelInit
<1>2. IInv
    BY <1>1, IInvInit
<1>3. ExitMarked
    BY <1>1 DEF Init, SwitchNewProc, Stale, ExitMarked
<1>4. /\ region1 = [M!initPT EXCEPT ![vpn] = PAGE_TABLE_LEN + vpn]
      /\ free_vpn = [p \in Proc |-> IF p = init THEN vpn ELSE -1]
      /\ currKernelBrk = OrigBrk
    BY <1>1 DEF M!Init, M!Proc, Proc, M!init, init
<1>5. /\ PAGE_TABLE_LEN \in Nat /\ OrigBrk \in Nat \ {0}
      /\ PAGE_TABLE_LEN > OrigBrk + 3
    BY KernelAssumption DEF M!MemoryAssumption
<1>6. /\ DOMAIN M!initPT = M!Page
      /\ \A v \in M!Page : M!initPT[v] = IF v < OrigBrk THEN PAGE_TABLE_LEN + v
                                                       ELSE M!Invalid
    BY DEF M!initPT
<1>7. \E v \in 0 .. PAGE_TABLE_LEN - 3 : M!initPT[v] = M!Invalid
  <2>1. OrigBrk \in 0 .. PAGE_TABLE_LEN - 3 /\ OrigBrk \in M!Page
      BY <1>5 DEF M!Page
  <2> QED
      BY <1>5, <1>6, <2>1
<1>8. vpn \in M!Page /\ M!initPT[vpn] = M!Invalid
    BY <1>7, FindTablePage
<1> HIDE DEF vpn
<1>9. vpn >= OrigBrk
    BY <1>5, <1>6, <1>8 DEF M!Page, M!Invalid
<1>10. Holders = {init} /\ init \in Proc
    BY <1>1, ConstantsAssumption
    DEF Init, Holders, Running, Stops, Created, Live, init, idle, Proc
<1>11. \A v \in M!Page : v < OrigBrk => region1[v] # M!Invalid
    BY <1>4, <1>5, <1>6 DEF M!Page, M!Invalid
<1>12. TablesHeld
    BY <1>4, <1>6, <1>8, <1>9, <1>10, <1>11 DEF TablesHeld
<1> QED
    BY <1>2, <1>3, <1>12

LEMMA HeldKept ==
    ASSUME TablesHeld
    PROVE  TablesKept
<1>1. Live \subseteq Holders
    BY DEF Holders, Live
<1>2. \A p \in Live :
          /\ region1[free_vpn[p]] = PAGE_TABLE_LEN + free_vpn[p]
          /\ free_vpn[p] >= currKernelBrk
          /\ \A q \in Live \ {p} : free_vpn[q] # free_vpn[p]
    BY <1>1 DEF TablesHeld
<1> QED
    BY <1>2 DEF TablesKept, M!TablesApart, M!idle, idle, Live

\* Whatever calls the programs make, with delays, with rotations and with exited
\* processes that are resumed, each live process has a page table of its own
\* where the kernel looks for it: Fork takes a page that no other table is in,
\* and the one page ever freed was that of a process that has exited.  This
\* ends with the first Brk past the end of region0Pt, after which the machine is
\* in the state "undefined" and nothing is claimed.
THEOREM TablesKeptCorrect == KernelSpec => []TablesKept
<1> DEFINE I == IInv /\ ExitMarked /\ TablesHeld
<1>1. ASSUME I, [KernelNext]_allVars
      PROVE  I'
  <2>1. IInv /\ TypeOK /\ SchedOK /\ ExitMarked
      BY <1>1 DEF IInv
  <2>2. CASE [Next]_vars
      BY <1>1, <2>1, <2>2, IInvStep, MarkedStep, HeldStep
  <2>3. CASE Crash("undefined")
    <3>1. SchedOK' /\ FamilyPart'
        BY <2>1, <2>3, FamilyUnchanged DEF IInv, SchedOK, Crash, Created
    <3>2. IInv'
        BY <2>1, <2>3, <3>1, CrashType DEF IInv, Stops
    <3>3. ExitMarked'
        BY <2>1, <2>3, SameMarked DEF Crash, Stops
    <3> QED
        BY <1>1, <3>2, <3>3, HeldStep
  <2> QED
      BY <1>1, <2>2, <2>3, StepOfKernel
<1>2. KernelInit => I
    BY HeldInit
<1>3. I => TablesKept
    BY HeldKept
<1> QED
    BY <1>1, <1>2, <1>3, PTL DEF KernelSpec

-----------------------------------------------------------------------------
(* Ownership of frames: what is proved of Memory.tla, carried over.         *)

LEMMA MemoryInitSame ==
    ASSUME M!Init
    PROVE  MP!Init
  BY DEF M!Init, MP!Init, M!initPT, MP!initPT, M!buildFreePages,
         MP!buildFreePages, M!findFreeVirtualPage, MP!findFreeVirtualPage,
         M!Frame, MP!Frame, M!Proc, MP!Proc, M!idle, MP!idle, M!init, MP!init,
         M!Page, MP!Page, M!Invalid, MP!Invalid, M!NoFrame, MP!NoFrame,
         M!StackLimit, MP!StackLimit, M!KernelStack, MP!KernelStack,
         M!Taken, MP!Taken, M!Rank, MP!Rank, M!Assign, MP!Assign,
         M!findFreePage, MP!findFreePage, M!Unmapped, MP!Unmapped,
         M!Loaded, MP!Loaded, M!LowPages, MP!LowPages, M!StackPages,
         MP!StackPages, M!Min, MP!Min, M!Max, MP!Max,
         M!IdleTable, MP!IdleTable,
         M!Cardinality, MP!Cardinality, M!IsFiniteSet, MP!IsFiniteSet

LEMMA MemoryNextSame ==
    ASSUME [M!Next]_(M!vars)
    PROVE  [MP!Next]_(MP!vars)
<1>1. CASE M!Next
    BY <1>1
    DEF M!Next, MP!Next, M!Callers, MP!Callers, M!Usable, MP!Usable,
        M!Fork, MP!Fork, M!Exit, MP!Exit, M!Exec, MP!Exec, M!Grow, MP!Grow,
        M!Brk, MP!Brk, M!Malloc, MP!Malloc, M!Reload, MP!Reload,
        M!ForkMemory, MP!ForkMemory, M!ExitMemory, MP!ExitMemory,
        M!ExecMemory, MP!ExecMemory, M!LoadProgram, MP!LoadProgram,
        M!GrowMemory, MP!GrowMemory, M!BrkMemory, MP!BrkMemory,
        M!BrkDown, MP!BrkDown, M!BrkUp, MP!BrkUp,
        M!SetKernelBrk, MP!SetKernelBrk, M!ReloadMemory, MP!ReloadMemory,
        M!CanFork, MP!CanFork, M!BuildRegion0, MP!BuildRegion0,
        M!findFreeVirtualPage, MP!findFreeVirtualPage,
        M!BorrowR1Page, MP!BorrowR1Page, M!FitsVirtual, MP!FitsVirtual,
        M!Mapped, MP!Mapped, M!Freed, MP!Freed, M!Taken, MP!Taken,
        M!Rank, MP!Rank, M!Assign, MP!Assign, M!Loaded, MP!Loaded,
        M!findFreePage, MP!findFreePage, M!Unmapped, MP!Unmapped,
        M!LowPages, MP!LowPages, M!StackPages, MP!StackPages,
        M!KernelStack, MP!KernelStack, M!StackLimit, MP!StackLimit,
        M!Page, MP!Page, M!Invalid, MP!Invalid, M!NoFrame, MP!NoFrame,
        M!idle, MP!idle, M!init, MP!init, M!memVars, MP!memVars,
        M!Min, MP!Min, M!Max, MP!Max,
        M!Cardinality, MP!Cardinality, M!IsFiniteSet, MP!IsFiniteSet
<1>2. CASE UNCHANGED M!vars
    BY <1>2 DEF M!vars, MP!vars, M!memVars, MP!memVars
<1> QED
    BY <1>1, <1>2

\* A frame of a live process is not free, and not that of another.
LEMMA OwnedByOne ==
    ASSUME MP!FreeOwned, cpu \in Live
    PROVE  UserMemoryOwned
<1>1. ASSUME NEW v \in M!Page, region0[cpu][v] \in M!LowFrames
      PROVE  /\ region0[cpu][v] \notin freePages
             /\ \A p \in Live \ {cpu}, w \in M!Page :
                   region0[p][w] # region0[cpu][v]
  <2>1. /\ M!Page = MP!Page /\ M!LowFrames = MP!LowFrames
        /\ Live \subseteq MP!Users
      BY DEF M!Page, MP!Page, M!LowFrames, MP!LowFrames, MP!Users
  <2>2. \A p \in Live : MP!Tables[p] = region0[p]
      BY <2>1 DEF MP!Tables, MP!TableOf, MP!KERNEL, Live, Created
  <2> QED
      BY <1>1, <2>1, <2>2 DEF MP!FreeOwned, MP!Owned
<1> QED
    BY <1>1 DEF UserMemoryOwned

\* For programs that neither Delay, write to a terminal nor move their break, a
\* running program has, among the frames below those of Region 1, none that is
\* free and none that another live process has, however processes fork, exec,
\* exit, rotate and fault.  Of the frames above them this is false: a Fork marks
\* the one behind its borrowed page PAGE_FREE.
THEOREM UserMemoryOwnedCorrect ==
    ASSUME Calls \cap {"Delay", "TtyWrite", "Brk", "Malloc"} = {}
    PROVE  KernelSpec => []UserMemoryOwned
<1>0. /\ Calls \cap {"Delay", "TtyWrite"} = {}
      /\ "Brk" \notin Ops /\ "Delay" \notin Ops /\ "Malloc" \notin Ops
    BY DEF Ops
<1>1. KernelInit => MP!FInv
    BY MemorySizes, MemoryInitSame, MP!FInvInit DEF KernelInit
<1>2. ASSUME KInv, MP!FInv, [KernelNext]_allVars
      PROVE  MP!FInv'
  <2>1. [MP!Next]_(MP!vars)
      BY <1>0, <1>2, MemoryStep, MemoryNextSame
  <2> QED
      BY <1>0, <1>2, <2>1, MemorySizes, MP!FInvStep
<1>3. ASSUME KInv, MP!FInv
      PROVE  UserMemoryOwned
  <2>1. MP!FreeOwned
      BY <1>3 DEF MP!FInv
  <2>2. CASE cpu \in Live
      BY <2>1, <2>2, OwnedByOne
  <2>3. CASE cpu = idle
      BY <2>3 DEF UserMemoryOwned
  <2> QED
      BY <1>3, <2>2, <2>3 DEF KInv, ContextsOK
<1> QED
    BY <1>0, <1>1, <1>2, <1>3, KInvCorrect, PTL DEF KernelSpec

=============================================================================
