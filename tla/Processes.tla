----------------------------- MODULE Processes -----------------------------
(***************************************************************************)
(* Processes of the Yalnix kernel: who runs, who is queued, who waits for  *)
(* whom.  The module follows the process-control code of the kernel:       *)
(* fork.c, exit.c, wait.c, delay.c, contextswitch.c, the queues of         *)
(* sharedvar.c, the trap handlers of handlers.c and the context switches   *)
(* of ttywrite.c.  A process is named by its process_id.                   *)
(*                                                                         *)
(* Two notions of "the running process" are kept apart, as in the code:    *)
(*   curr_proc  the kernel's global, assigned by the Switch* functions and *)
(*              by SetNextProc;                                            *)
(*   cpu        the process whose Region 0 (REG_PTR0), and so whose user   *)
(*              image and kernel stack, the machine is executing on.       *)
(*                                                                         *)
(* The kernel is entered by a trap only from user mode and is not          *)
(* interrupted while it runs.  One step of the model goes from the entry   *)
(* of a handler, or from the return of a ContextSwitch call, to the next   *)
(* ContextSwitch call or to the return to user mode.                       *)
(***************************************************************************)
EXTENDS Integers, FiniteSets, Sequences, SequencesExt

CONSTANTS
    MaxPid,        \* bound: the highest process_id that Fork hands out
    MaxDelay,      \* bound: the longest Delay a program asks for
    MaxTransmits,  \* bound: terminal transmissions in progress at once
    Status,        \* the exit statuses programs pass to Exit
    Calls          \* the kernel calls and exceptions the programs make

ASSUME ConstantsAssumption ==
    /\ MaxPid \in Nat \ {0}
    /\ MaxDelay \in Nat \ {0}
    /\ MaxTransmits \in Nat
    /\ Status \subseteq Int

Proc == 0 .. MaxPid
idle == 0                  \* idle_pcb
init == 1                  \* the process started by KernelStart
NULL == -1                 \* no process

\* comp421/yalnix.h: what a failed kernel call returns, and the status that a
\* process terminated by the kernel should show its parent.
ERROR == -1

VARIABLES
    next_proc_id,      \* the process_id that the next create_pcb assigns
    parent,            \* pcb.parent
    children,          \* the list children_head .. children_tail, as a set
    exited_children,   \* the list exited_children_head .. tail
    waiting,           \* pcb.waiting
    delay_ticks,       \* pcb.delay_ticks
    ctx,               \* pcb.ctx: where the process resumes, on which stack
    dead,              \* the processes whose Region 0 SwitchExit has freed
    queue,             \* the ready queue
    waiting_queue,     \* the queue of delayed processes
    ticks_passed,      \* clock ticks since the last rotation by Tick_
    curr_proc,
    cpu,
    transmits,         \* transmissions started and not yet signalled
    kmode              \* what the machine is doing

vars == <<next_proc_id, parent, children, exited_children, waiting,
          delay_ticks, ctx, dead, queue, waiting_queue, ticks_passed,
          curr_proc, cpu, transmits, kmode>>

\* Where a SavedContext resumes: the ContextSwitch call it was saved in.
Points == {"boot", "fork", "wait", "delay", "clock", "exit", "ttywrite",
           "ttytransmit"}

\* A context whose stack frames no longer exist: the process has been running
\* since it was saved.
Stale == [at |-> "none", stack |-> NULL]

\* "user": cpu executes its program.  "kernel": a ContextSwitch has just
\* loaded the context of cpu.  The others are final: "hang" is the endless
\* loop of ExitFunc, "fault" a kernel access through a NULL pointer, "halt" the
\* Halt instruction, "undefined" a behaviour the C program does not define.
Stops == {"hang", "fault", "halt", "undefined"}

Min2(a, b) == IF a <= b THEN a ELSE b

TypeOK ==
    /\ next_proc_id \in 2 .. MaxPid + 1
    /\ parent \in [Proc -> Proc \cup {NULL}]
    /\ children \in [Proc -> SUBSET Proc]
    /\ exited_children \in [Proc -> Seq([pid : Proc, status : Int])]
    /\ waiting \in [Proc -> BOOLEAN]
    /\ delay_ticks \in [Proc -> Int]
    /\ ctx \in [Proc -> [at : Points, stack : Proc] \cup {Stale}]
    /\ dead \subseteq Proc
    /\ queue \in Seq(Proc)
    /\ waiting_queue \in Seq(Proc)
    /\ ticks_passed \in 0 .. 3
    /\ curr_proc \in Proc
    /\ cpu \in Proc
    /\ transmits \in 0 .. MaxTransmits
    /\ kmode \in {"user", "kernel"} \cup Stops

-----------------------------------------------------------------------------
(* The end of KernelStart: idle and init exist, init runs.                  *)

\* A new pcb.  create_pcb leaves pcb.parent unset: Fork assigns it, and the
\* pcbs of idle and init come from a fresh, zeroed heap, where it is NULL.
create_pcb == [parent |-> NULL, children |-> {}, exited_children |-> <<>>,
               waiting |-> FALSE, delay_ticks |-> -1]

\* idle is suspended in KernelStart, in the switch to init; init has returned
\* from it on a copy of the stack and is in user mode.
SwitchNewProc == [p \in Proc |-> IF p = idle
                                 THEN [at |-> "boot", stack |-> idle]
                                 ELSE Stale]

Init ==
    /\ next_proc_id = 2
    /\ parent = [p \in Proc |-> create_pcb.parent]
    /\ children = [p \in Proc |-> create_pcb.children]
    /\ exited_children = [p \in Proc |-> create_pcb.exited_children]
    /\ waiting = [p \in Proc |-> create_pcb.waiting]
    /\ delay_ticks = [p \in Proc |-> create_pcb.delay_ticks]
    /\ ctx = SwitchNewProc
    /\ dead = {}
    /\ queue = <<>>
    /\ waiting_queue = <<>>
    /\ ticks_passed = 0
    /\ curr_proc = init
    /\ cpu = init
    /\ transmits = 0
    /\ kmode = "user"

-----------------------------------------------------------------------------
(* Ready queue and context switch.  Each queue is the sequence of the       *)
(* processes of its items, head first.                                      *)

PushProcToQueue(q, p) == Append(q, p)

\* Only the item at the head of the ready queue can be unlinked soundly: its
\* items have no prev.
RemoveItemFromReadyQueue(q) == Tail(q)

\* Mutated forms of FindReadyPcb: no idle process to fall back on; and a queue
\* of one process taken for an empty one.
FindReadyPcbOrNull(q) ==
    IF q = <<>> THEN [proc |-> NULL, rest |-> q]
                ELSE [proc |-> Head(q), rest |-> RemoveItemFromReadyQueue(q)]
FindReadyPcbOffByOne(q) ==
    IF Len(q) <= 1 THEN [proc |-> idle, rest |-> q]
                   ELSE [proc |-> Head(q), rest |-> RemoveItemFromReadyQueue(q)]

\* The process that FindReadyPcb returns, and the ready queue it leaves.
FindReadyPcb(q) ==
    IF q = <<>> THEN [proc |-> idle, rest |-> q]
                ELSE [proc |-> Head(q), rest |-> RemoveItemFromReadyQueue(q)]

\* ContextSwitch(SwitchExist, &curr_proc->ctx, curr_proc, next): the machine
\* saves its own state, frames on the kernel stack of cpu, into the pcb of
\* curr_proc, and loads what is saved for next.
SwitchExist(at, next) ==
    /\ ctx' = [ctx EXCEPT ![curr_proc] = [at |-> at, stack |-> cpu]]
    /\ curr_proc' = next
    /\ cpu' = next
    /\ kmode' = "kernel"

\* Give up the machine to FindReadyPcb(), the ready queue being q.
Dispatch(at, q) ==
    /\ SwitchExist(at, FindReadyPcb(q).proc)
    /\ queue' = FindReadyPcb(q).rest

\* The machine stops, or leaves what the C program defines.
Crash(m) ==
    /\ kmode' = m
    /\ UNCHANGED <<next_proc_id, parent, children, exited_children, waiting,
                   delay_ticks, ctx, dead, queue, waiting_queue, ticks_passed,
                   curr_proc, cpu, transmits>>

\* A program makes kernel call c.  The idle program makes none: it Pauses.
UserCall(c) ==
    /\ kmode = "user"
    /\ cpu # idle
    /\ c \in Calls

-----------------------------------------------------------------------------
(* Fork.                                                                    *)

\* Mutated form of SwitchFork: the parent is not put on the ready queue.
SwitchForkNoPush(par, child) ==
    /\ ctx' = [ctx EXCEPT ![par] = [at |-> "fork", stack |-> cpu],
                          ![child] = [at |-> "fork", stack |-> child]]
    /\ curr_proc' = child
    /\ cpu' = child
    /\ kmode' = "kernel"
    /\ queue' = queue

\* The child runs first, on a copy of the kernel stack; the parent becomes
\* ready.  Both resume where ForkFunc called ContextSwitch.
SwitchFork(par, child) ==
    /\ ctx' = [ctx EXCEPT ![par] = [at |-> "fork", stack |-> cpu],
                          ![child] = [at |-> "fork", stack |-> child]]
    /\ curr_proc' = child
    /\ cpu' = child
    /\ kmode' = "kernel"
    /\ queue' = PushProcToQueue(queue, par)

ForkFunc ==
    /\ UserCall("Fork")
    /\ next_proc_id <= MaxPid
    /\ next_proc_id' = next_proc_id + 1
    /\ parent' = [parent EXCEPT ![next_proc_id] = curr_proc]
    /\ children' = [children EXCEPT ![curr_proc] = @ \cup {next_proc_id}]
    /\ SwitchFork(curr_proc, next_proc_id)
    /\ UNCHANGED <<exited_children, waiting, delay_ticks, dead, waiting_queue,
                   ticks_passed, transmits>>

\* SwitchFork copies the pages that the page table of curr_proc maps, reading
\* them through the page table of cpu.  If these are two processes, whose stacks
\* may have grown differently, the kernel may read a page that is not mapped.
ForkUnmapped ==
    /\ UserCall("Fork")
    /\ next_proc_id <= MaxPid
    /\ cpu # curr_proc
    /\ Crash("undefined")

-----------------------------------------------------------------------------
(* Exit.  The children become orphans; a parent gets the exit record, and   *)
(* is made ready if it is waiting; SwitchExit frees Region 0 of curr_proc   *)
(* and runs the next ready process.                                         *)

\* Mutated form of OrphanChildren: the loop stops at once.
OrphanNone(p) == parent
OrphanChildren(p) ==
    [c \in Proc |-> IF c \in children[p] THEN NULL ELSE parent[c]]

\* Mutated form of RemoveChildFromParent: the list keeps the child.
KeepChild(p, par) == children
RemoveChildFromParent(p, par) == [children EXCEPT ![par] = @ \ {p}]

\* Mutated form of PushExitToExited: the newest record comes first.
PushExitToFront(p, par, status) ==
    [exited_children EXCEPT ![par] = <<[pid |-> p, status |-> status]>> \o @]
PushExitToExited(p, par, status) ==
    [exited_children EXCEPT ![par] = Append(@, [pid |-> p, status |-> status])]

\* Mutated forms of WakeParent: the waiting flag stays set; and every parent
\* is made ready, waiting or not.
WakeParentStillWaiting(par) ==
    IF waiting[par]
    THEN [waiting |-> waiting, queue |-> PushProcToQueue(queue, par)]
    ELSE [waiting |-> waiting, queue |-> queue]
WakeAnyParent(par) ==
    [waiting |-> [waiting EXCEPT ![par] = FALSE],
     queue |-> PushProcToQueue(queue, par)]
WakeParent(par) ==
    IF waiting[par]
    THEN [waiting |-> [waiting EXCEPT ![par] = FALSE],
          queue |-> PushProcToQueue(queue, par)]
    ELSE [waiting |-> waiting, queue |-> queue]

\* ContextSwitch(SwitchExit, ...), which releases what Region 0 of p maps.
SwitchExit(p, q) == dead' = dead \cup {p} /\ Dispatch("exit", q)

ExitFunc(status) ==
    LET p == curr_proc
        par == parent[p]
    IN  /\ parent' = OrphanChildren(p)
        /\ \/ /\ par = NULL
              /\ UNCHANGED <<children, exited_children, waiting>>
              /\ SwitchExit(p, queue)
           \/ /\ par # NULL
              /\ children' = RemoveChildFromParent(p, par)
              /\ exited_children' = PushExitToExited(p, par, status)
              /\ waiting' = WakeParent(par).waiting
              /\ SwitchExit(p, WakeParent(par).queue)
        /\ UNCHANGED <<next_proc_id, delay_ticks, waiting_queue, ticks_passed,
                       transmits>>

\* The Exit kernel call with argument s: the handler passes 0, not s.
Exit(s) == UserCall("Exit") /\ s \in Status /\ ExitFunc(0)

\* An exception terminates the process.
TrapIllegalHandler == UserCall("Trap") /\ ExitFunc(1)
TrapMathHandler == UserCall("Trap") /\ ExitFunc(1)

\* A memory exception grows the user stack, which changes nothing modelled here,
\* or terminates the process.
TrapMemoryHandler == UserCall("Trap") /\ (UNCHANGED vars \/ ExitFunc(1))

-----------------------------------------------------------------------------
(* Wait.                                                                    *)

\* RemoveHeadFromExitQueue writes through the new head of the list, which is
\* NULL when the record removed was the only one; with no record at all,
\* WaitFunc reads the process_id through NULL.
RemoveHeadFromExitQueue(p) ==
    /\ Len(exited_children[p]) > 1
    /\ exited_children' = [exited_children EXCEPT ![p] = Tail(@)]

\* The end of WaitFunc, from "there is an exited child" on.
Collect(p) ==
    \/ Len(exited_children[p]) <= 1 /\ Crash("fault")
    \/ /\ RemoveHeadFromExitQueue(p)
       /\ ctx' = [ctx EXCEPT ![cpu] = Stale]
       /\ kmode' = "user"
       /\ UNCHANGED <<next_proc_id, parent, children, waiting, delay_ticks,
                      dead, queue, waiting_queue, ticks_passed, curr_proc,
                      cpu, transmits>>

\* Mutated form of MustBlock: a process without children blocks too.
MustBlockAlways(p) == exited_children[p] = <<>>

\* There is a child to wait for, and none has exited.
MustBlock(p) == exited_children[p] = <<>> /\ children[p] # {}

WaitFunc ==
    /\ UserCall("Wait")
    /\ \/ exited_children[curr_proc] # <<>> /\ Collect(curr_proc)
       \/ /\ exited_children[curr_proc] = <<>>
          /\ ~MustBlock(curr_proc)
          /\ UNCHANGED vars                      \* returns ERROR
       \/ /\ MustBlock(curr_proc)
          /\ waiting' = [waiting EXCEPT ![curr_proc] = TRUE]
          /\ Dispatch("wait", queue)
          /\ UNCHANGED <<next_proc_id, parent, children, exited_children,
                         delay_ticks, dead, waiting_queue, ticks_passed,
                         transmits>>

-----------------------------------------------------------------------------
(* Delay.                                                                   *)

PushItemToWaitingQueue(p) == Append(waiting_queue, p)

\* RemoveProcFromReadyQueue unlinks every item of p.  Only items at the head
\* can be unlinked, since prev is never set in the ready queue: n items are
\* taken from the head, and no other item is of p.
RemoveProcFromReadyQueue(q, p, n) ==
    /\ n \in 0 .. Len(q)
    /\ \A i \in 1 .. Len(q) : q[i] = p <=> i <= n

\* Delay(n); n = 0 and n < 0 return at once and change nothing.  The scan of a
\* ready queue that is not empty reads the next field of the last item, which
\* PushProcToQueue leaves unset: NULL, or what the memory held before.
DelayFunc(n) ==
    /\ UserCall("Delay")
    /\ \/ queue # <<>> /\ Crash("undefined")
       \/ \E k \in 0 .. Len(queue) :
          /\ RemoveProcFromReadyQueue(queue, curr_proc, k)
          /\ delay_ticks' = [delay_ticks EXCEPT ![curr_proc] = n]
          /\ waiting_queue' = PushItemToWaitingQueue(curr_proc)
          /\ Dispatch("delay", SubSeq(queue, k + 1, Len(queue)))
          /\ UNCHANGED <<next_proc_id, parent, children, exited_children,
                         waiting, dead, ticks_passed, transmits>>

-----------------------------------------------------------------------------
(* The clock.                                                               *)

\* curr_proc goes to the tail of the ready queue and its head becomes
\* curr_proc.  Nothing is switched: cpu stays as it is.
SetNextProc ==
    /\ queue' = Tail(PushProcToQueue(queue, curr_proc))
    /\ curr_proc' = Head(queue)

\* Mutated form of QuantumOver: every tick starts the quantum afresh.
NeverOver == FALSE

\* ticks_passed, just incremented, is more than 2.
QuantumOver == ticks_passed + 1 > 2

\* ticks_passed only matters up to "more than 2" and is kept up to 3.
Tick_ ==
    /\ \/ /\ QuantumOver /\ queue # <<>>
          /\ SetNextProc
          /\ ticks_passed' = 0
       \/ /\ ~(QuantumOver /\ queue # <<>>)
          /\ UNCHANGED <<queue, curr_proc>>
          /\ ticks_passed' = Min2(ticks_passed + 1, 3)
    /\ ctx' = [ctx EXCEPT ![cpu] = Stale]
    /\ kmode' = "user"
    /\ UNCHANGED cpu

\* Mutated form of TickDown: nothing is ticked down.
TickNone(i, j) == delay_ticks

\* The delays after the items i to j of the waiting queue have been ticked
\* down.  A process with two items there loses two ticks.
TickDown(i, j) ==
    [p \in Proc |-> delay_ticks[p]
                     - Cardinality({k \in i .. j : waiting_queue[k] = p})]

\* The positions at which a scan from position i on ends a delay.
Expiring(i) ==
    {j \in i .. Len(waiting_queue) : TickDown(i, j)[waiting_queue[j]] <= 0}

RemoveItemFromWaitingQueue(j) == RemoveAt(waiting_queue, j)

\* The loop of TrapClockHandler from position i of the waiting queue on.  At
\* the first delay that ends, the process is made ready and switched to, and
\* the rest of the loop and Tick_ wait for curr_proc to be resumed.
ClockFrom(i) ==
    /\ \/ /\ Expiring(i) = {}
          /\ delay_ticks' = TickDown(i, Len(waiting_queue))
          /\ UNCHANGED waiting_queue
          /\ Tick_
       \/ \E j \in Expiring(i) :
          /\ \A k \in Expiring(i) : j <= k
          /\ delay_ticks' = TickDown(i, j)
          /\ waiting_queue' = RemoveItemFromWaitingQueue(j)
          /\ queue' = PushProcToQueue(queue, waiting_queue[j])
          /\ SwitchExist("clock", waiting_queue[j])
          /\ UNCHANGED ticks_passed
    /\ UNCHANGED <<next_proc_id, parent, children, exited_children, waiting,
                   dead, transmits>>

TrapClockHandler == kmode = "user" /\ ClockFrom(1)

-----------------------------------------------------------------------------
(* Terminals.  addToLineTail and addToProcTail change a copy of the list    *)
(* head, so write_out and write_queue stay NULL and mutex stays 1.          *)
TtyWriteFunc ==
    /\ UserCall("TtyWrite")
    /\ transmits < MaxTransmits
    /\ transmits' = transmits + 1
    /\ Dispatch("ttywrite", queue)
    /\ UNCHANGED <<next_proc_id, parent, children, exited_children, waiting,
                   delay_ticks, dead, waiting_queue, ticks_passed>>

\* With no writer on write_queue, the machine goes to the next ready process
\* whichever process was interrupted.
TtyTransmitFunc ==
    /\ Dispatch("ttytransmit", queue)
    /\ UNCHANGED <<next_proc_id, parent, children, exited_children, waiting,
                   delay_ticks, dead, waiting_queue, ticks_passed>>

\* The interrupt at the end of a transmission.
TrapTTYTransmitHandler ==
    /\ kmode = "user"
    /\ transmits > 0
    /\ transmits' = transmits - 1
    /\ TtyTransmitFunc

TtyReadFunc == UserCall("TtyRead") /\ Crash("halt")

-----------------------------------------------------------------------------
(* A ContextSwitch call returns in the process that was switched to.        *)

\* The loaded context fits the kernel stack now mapped.
Resumes(at) ==
    /\ kmode = "kernel"
    /\ ctx[cpu] = [at |-> at, stack |-> cpu]

\* Nothing is left to do but to return from the handler.  For idle this is the
\* end of KernelStart, after it has loaded init's program once more.
ResumeReturn ==
    /\ \E at \in {"boot", "fork", "delay", "ttywrite", "ttytransmit"} :
           Resumes(at)
    /\ ctx' = [ctx EXCEPT ![cpu] = Stale]
    /\ kmode' = "user"
    /\ UNCHANGED <<next_proc_id, parent, children, exited_children, waiting,
                   delay_ticks, dead, queue, waiting_queue, ticks_passed,
                   curr_proc, cpu, transmits>>

ResumeWait == Resumes("wait") /\ Collect(curr_proc)

\* The handler reads the next field of an item it has freed: NULL, an item
\* that is on the waiting queue now, or anything else.
ResumeClock ==
    /\ Resumes("clock")
    /\ \/ \E i \in 1 .. Len(waiting_queue) + 1 : ClockFrom(i)
       \/ Crash("undefined")

\* ExitFunc goes on in a process that has exited: it loops for ever, if the
\* freed frames of its kernel stack have not been given to another process.
ResumeExit ==
    /\ Resumes("exit")
    /\ \E m \in {"hang", "undefined"} : Crash(m)

\* The context was saved on the stack of another process, or its frames are
\* gone.
ResumeForeign ==
    /\ kmode = "kernel"
    /\ ctx[cpu].stack # cpu
    /\ Crash("undefined")

Resume == ResumeReturn \/ ResumeWait \/ ResumeClock \/ ResumeExit
            \/ ResumeForeign

\* The machine has stopped.
Stopped == kmode \in Stops /\ UNCHANGED vars

-----------------------------------------------------------------------------
Next ==
    \/ ForkFunc
    \/ ForkUnmapped
    \/ \E s \in Status : Exit(s)
    \/ TrapIllegalHandler
    \/ TrapMathHandler
    \/ TrapMemoryHandler
    \/ WaitFunc
    \/ \E n \in 1 .. MaxDelay : DelayFunc(n)
    \/ TtyWriteFunc
    \/ TrapTTYTransmitHandler
    \/ TtyReadFunc
    \/ TrapClockHandler
    \/ Resume
    \/ Stopped

Spec == Init /\ [][Next]_vars

\* The kernel runs when it has been entered.  The clock interrupt stays pending
\* while the kernel runs and is taken on the return to user mode.
FairSpec == Spec /\ WF_vars(Resume) /\ SF_vars(TrapClockHandler)

-----------------------------------------------------------------------------
(* Properties.                                                              *)

Running == kmode \notin Stops
Created == 0 .. next_proc_id - 1
Live == Created \ (dead \cup {idle})
OnQueue(p, q) == \E i \in 1 .. Len(q) : q[i] = p

\* The children list of a process that has not exited holds exactly the
\* processes that name it as parent and have not exited: what ForkFunc links,
\* ExitFunc unlinks at both ends, in whatever order parents and children exit
\* and whichever process the clock makes current in between.
FamilyInv ==
    \A p \in Created \ dead :
        children[p] = {c \in Created \ dead : parent[c] = p}

\* A process is never left blocked in Wait with an exit record to collect, nor
\* with no child whose exit would wake it: between the test in WaitFunc and
\* the wake-up in ExitFunc no exit is missed.
NoLostWakeup ==
    \A p \in Proc \ dead : waiting[p] =>
        /\ exited_children[p] = <<>>
        /\ \E c \in Created \ dead : parent[c] = p

\* A process suspended in Fork, Delay or Wait is where the kernel will find it
\* again: on the ready queue, on the waiting queue with its delay, or flagged
\* as waiting for the ExitFunc of a child.
SuspendedAccounted ==
    \A p \in Proc : Running /\ curr_proc # p =>
        /\ ctx[p].at = "fork" => OnQueue(p, queue)
        /\ ctx[p].at = "delay" =>
               OnQueue(p, waiting_queue) \/ OnQueue(p, queue)
        /\ ctx[p].at = "wait" => waiting[p] \/ OnQueue(p, queue)

\* The idle process runs only when no process is ready, is never queued or
\* delayed, and the kernel never takes another process for it: FindReadyPcb
\* finds a process when there is one.
IdleInv ==
    /\ ~OnQueue(idle, queue)
    /\ ~OnQueue(idle, waiting_queue)
    /\ curr_proc = idle <=> cpu = idle
    /\ cpu = idle => queue = <<>>

\* When a process exits, no process that survives keeps it as its parent: a
\* later exit of the survivor leaves no record with the dead process.
ExitOrphansChildren ==
    [][\A p \in dead' \ dead : \A c \in Created' \ dead' : parent'[c] # p]_vars

\* A delayed process leaves the waiting queue, unless the machine stops: the
\* clock handler reaches every delay, whatever wakes up in the meantime.
DelayEnds ==
    \A p \in Proc :
        OnQueue(p, waiting_queue) ~> (~OnQueue(p, waiting_queue) \/ ~Running)

\* A process on the ready queue gets its turn as curr_proc, unless the machine
\* stops: the rotation of Tick_ and the switches of the other calls pass nobody
\* by.  It need not run then: SetNextProc only renames curr_proc, and a ready
\* process may get turn after turn while another keeps the machine.
ReadyBecomesCurrent ==
    \A p \in Proc : OnQueue(p, queue) ~> (curr_proc = p \/ ~Running)

-----------------------------------------------------------------------------
(* Properties of programs that Fork, Exit, Wait and fail, and neither Delay *)
(* nor write to a terminal.                                                 *)

\* Every live process is in exactly one place: it is curr_proc, or it is on
\* the ready queue, once, or it waits for a child.
LiveInOnePlace ==
    /\ \A i, j \in 1 .. Len(queue) : queue[i] = queue[j] => i = j
    /\ \A p \in Proc :
          LET places == {x \in {"curr", "ready", "wait"} :
                            \/ x = "curr" /\ curr_proc = p
                            \/ x = "ready" /\ OnQueue(p, queue)
                            \/ x = "wait" /\ waiting[p]}
          IN  /\ p \in Live => Cardinality(places) = 1
              /\ p \notin Live \cup {idle} => places = {}

\* The machine falls idle only when all processes have exited: no family is
\* left waiting for itself.
IdleAfterLastExit == Running /\ cpu = idle => Live = {}

\* Fork, Exit and Wait keep the promises of Family.tla: each step that changes
\* a family is taken in the name of a live process that is not blocked.
F == INSTANCE Family WITH
        ExitStatus <- {0, 1},
        live <- Live,
        parent <- [p \in Proc |-> IF p \in Live THEN parent[p] ELSE NULL],
        records <- exited_children,
        blocked <- {p \in Proc : waiting[p]}
FamilySpec == F!Spec

-----------------------------------------------------------------------------
(* What the comments and the README of the kernel say of it, and it does    *)
(* not do.                                                                  *)

GetPid_ == curr_proc

\* GetPid returns the process_id of the process that calls it: the kernel's
\* current process is the one that runs.
CurrentIsCaller == kmode = "user" /\ cpu # idle => GetPid_ = cpu

\* A process that the clock handler interrupts in favour of one whose delay
\* has ended runs again: it is current or ready.
PreemptedIsReady ==
    \A p \in Proc \ {idle} :
        Running /\ ctx[p].at = "clock" => p = curr_proc \/ OnQueue(p, queue)

\* Wait collects an exited child and returns.
WaitReturns == kmode # "fault"

\* After an exit the next ready process, or idle, runs.
ExitRunsNext == kmode # "hang"
=============================================================================
