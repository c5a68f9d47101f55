# A TLA+ model of the Yalnix kernel

The repository is an operating-system kernel for the simulated machine of the
COMP 421 course: a C program that the machine enters through a table of trap
handlers. This project models its processes, scheduler, memory, lists and
terminals, model-checks them with TLC on small instances and, with TLAPS, proves
for instances of any size every safety property that the runs check but one
(`OnlyBorrowedShared`).

## 1. The system

### Components, their state and their operations

| Component | Source | State | Operations |
|---|---|---|---|
| Process table and families | `fork.c` `exit.c` `wait.c` `getpid.c` `sharedvar.c` | one `pcb` per process: parent, list of children, list of exit records, `waiting`, `delay_ticks`, `ctx`; `next_proc_id` | `ForkFunc`, `ExitFunc`, `WaitFunc`, `GetPid_` |
| Scheduler | `sharedvar.c` `contextswitch.c` `delay.c` | ready queue, `curr_proc`, `ticks_passed` | `FindReadyPcb`, `SetNextProc`, `Tick_`, `SwitchNewProc/Fork/Exist/Exit` |
| Delay and clock | `delay.c` `handlers.c` | waiting queue | `DelayFunc`, `TrapClockHandler` |
| Exceptions | `handlers.c` | none | illegal, memory, math handlers: terminate, or grow the user stack |
| Kernel-call dispatch | `handlers.c` | none | `TrapKernelHandler` |
| Terminals | `ttyread.c` `ttywrite.c` `handlers.c` | per terminal: read and write lines, writer queue, `mutex` | `TtyReadFunc`, `TtyWriteFunc`, receive and transmit interrupts |
| Linked lists | `sharedvar.c` `ttywrite.c` | `prev`/`next` pointers of the lists above | push, remove head, remove item |
| Physical frames | `sharedvar.c` `yalnix.c` | `freePages`, the free count | `findFreePage`, `freePage`, `BuildRegion0`, `buildFreePages`, `initPT` |
| Address spaces | `load.c` `exec.c` `brk.c` `handlers.c` `contextswitch.c` | one Region 0 page table per process, `brk` | `LoadProgram`, `ExecFunc`, `BrkFunc`, stack growth, the copy in `SwitchFork` |
| Kernel heap break | `yalnix.c` | kernel break, Region 1 table | `SetKernelBrk` |
| Boot | `yalnix.c` | all of it | `KernelStart` |
| Test programs | `idle.c`, `init*.c`, `execTest*.c` | none | user programs that exercise the kernel calls |

### How they interact

The machine enters the kernel through a trap handler, only from user mode; the
kernel is not interrupted while it runs. Every blocking operation ends in
`ContextSwitch`, which saves the state of the machine in one pcb and loads it
from another. Control then continues after the `ContextSwitch` call in which the
*other* process was suspended, so the tail of a handler may run long after its
head and many kernel calls of other processes lie between the two. `curr_proc`,
the two queues and the pcbs are global and shared by all handlers.

### What is hard here

* **Two running processes.** `SetNextProc` assigns `curr_proc` without a context
  switch: the process that executes (the one whose Region 0 is mapped) and the
  process the kernel thinks is executing may differ. All later calls act on the
  pcb of the wrong process, and the next switch saves the stack of the one in
  the pcb of the other.
* **Suspended handlers.** `TrapClockHandler` switches away in the middle of its
  loop over the waiting queue and goes on, when resumed, from a list item it has
  freed.
* **Exit, Wait and orphans in any order.** Parents and children exit before,
  while and after the other waits.
* **Who is on which queue.** A process can be switched out without being queued,
  or be queued while it runs.
* **Lists of length zero and one.** The removal functions treat them apart.
* **Memory.** Frames are allocated and freed in many places, with errors of the
  allocator ignored.

### What would make each part correct

* Families: the children lists and the parent pointers agree; exit records reach
  the parent once and in order; a process that waits is woken; nobody waits for
  a child that cannot come.
* Scheduler: every live process is running, ready, delayed or waiting, in one of
  these places; idle runs only if nobody is ready; no ready process starves.
* Clock: a delay ends.
* Frames and address spaces: a frame is free or mapped by one page table; freed
  frames are not used; a failed `Exec` or `Brk` changes nothing.
* Terminals: every line received is read once, in order; writers are served in
  order and resumed.

## 2. Modules

| Module | Contents |
|---|---|
| `Processes.tla` | families, scheduler, clock, the effect of terminals on the scheduler |
| `Family.tla` | abstract specification: what Fork, Exit and Wait promise |
| `Memory.tla` | page frames, the page tables of processes and kernel, Exec, Brk, stack growth, the kernel break |
| `Kernel.tla` | `Processes` and `Memory` composed: every handler with all it changes |
| `Queues.tla` | abstract specification: the ready and the waiting queue as sequences |
| `Lists.tla` | the same two queues as linked lists of heap items |
| `FamilyLists.tla` | the lists of children and of exit records as linked lists |
| `Terminals.tla` | `Processes` with the lists and the transmissions of the terminals |
| `Processes_proofs.tla` | theorems about `Processes`: families, wake-ups, idle |
| `Scheduling_proofs.tla` | theorems about `Processes`: the places of a process, the refinement of `Family` |
| `Terminals_proofs.tla`, `Memory_proofs.tla`, `Kernel_proofs.tla`, `Lists_proofs.tla`, `FamilyLists_proofs.tla` | theorems about the modules they are named after |
| `Counting.tla` | lemmas on finite sets of numbers that several proofs use |

`Kernel` and `Terminals` extend `Processes`: each of their actions is one of its
actions joined with what the same code does to memory or to a terminal.
`Processes` and `FamilyLists` implement `Family`, `Kernel` implements `Memory`, and
`Lists` implements `Queues`.

### Processes

State. A process is named by its `process_id`; 0 is idle, 1 is init. A field of
the pcb is a function on process ids. `children` is a set, because only
membership and emptiness of that list matter to the code; `exited_children`,
`queue` and `waiting_queue` are sequences. `cpu` is the process whose Region 0 is
mapped (`REG_PTR0`). `ctx[p]` is the saved context of `p`: the `ContextSwitch`
call it returns from and the process whose kernel stack it was saved on. `dead`
holds the processes whose memory `SwitchExit` has released; their pcbs are never
freed, as in the code. `transmits` counts transmissions that the terminal
hardware has not yet signalled.

Steps. One step goes from the entry of a handler, or from the return of a
`ContextSwitch` call, to the next `ContextSwitch` call or to the return to user
mode. Nothing can intervene in between. The second kind of step is `Resume`,
with one action for each place a context may continue at.

| Action | Code |
|---|---|
| `ForkFunc`, `ForkUnmapped` | `ForkFunc` up to `ContextSwitch(SwitchFork, ...)`, and `SwitchFork` |
| `Exit(s)`, `TrapIllegalHandler`, `TrapMathHandler`, `TrapMemoryHandler` | the handlers and the whole of `ExitFunc` up to its switch |
| `WaitFunc`, `ResumeWait` | `WaitFunc` before and after its switch |
| `DelayFunc(n)` | `DelayFunc`, with the scan of the ready queue |
| `TrapClockHandler`, `ResumeClock` | the loop over the waiting queue and `Tick_`, from the start and from the middle |
| `TtyWriteFunc`, `TrapTTYTransmitHandler`, `TtyReadFunc` | terminal calls, as far as they switch or stop the machine |
| `ResumeReturn`, `ResumeExit`, `ResumeForeign` | return to user mode; the endless loop at the end of `ExitFunc`; a context that does not fit the stack |
| `Stopped` | stuttering after the machine has stopped, so that any *other* deadlock is reported |

Where the C program leaves defined behaviour the model does so too. `kmode` has
four final values: `hang` (the loop at the end of `ExitFunc`), `fault` (the kernel
writes through `NULL`; what the machine does then is not in this repository),
`halt` (`Halt()`), and `undefined` (execution on a stack that is not the one the
context was saved on, or through a pointer nobody set). Two reads of memory that
may hold anything are nondeterministic choices: the `next` of the freed item in
`TrapClockHandler` (any position of the waiting queue, `NULL`, or undefined) and
the `next` of the last item in the scan of the ready queue by `DelayFunc` (`NULL`
or undefined). A third, `ForkUnmapped`, stands for page tables, which are
in `Memory` and not here: when the process that runs is not `curr_proc`,
`SwitchFork` may read a page that the running process does not map. `Kernel`, which
has the tables, decides it.

`WaitFunc` assigns its local `status_ptr` and writes nothing to user memory, so no
exit status reaches a program; the model has the status in the exit record only.

### Family

The contract in terms of a set of live processes, a parent function, records and
the set of processes blocked in Wait. All steps are taken by a live process that
is not blocked. `Processes` implements it, under the mapping `F` at the end of
`Processes.tla`, for programs that Fork, Exit, Wait and fail. The step in the
contract is taken *in the name of* some runnable process: the contract does not
say that it is the caller, and the kernel does not guarantee it.

### Memory

State. `freePages` is the set of frames marked free, `num_free_pages` the count
the kernel keeps beside it. `region0[p]` and `region1` map a page to its frame, to
`Invalid`, or to `NoFrame`, the -1 that `findFreePage` returns when memory is
exhausted and that its callers store as a frame number. `free_vpn[p]` is the page
of Region 1 that holds the table of `p`; `brk` and `sp` are counted in pages.
`booting` says that idle is still suspended in `KernelStart`. Contents of memory,
protection bits and registers are left out. So the two failures of `LoadProgram`
after it has replaced the old image (the file is too short, or it is read into the
pages of another process) have the tables of a success, and `ExecFunc` takes them
for one.

`findFreePage` returns the lowest free frame; a loop over it is one operator
(`Assign`, `Loaded`) that gives the n-th page the n-th lowest frame. `Init` is the
state after `KernelStart`: `initPT`, idle's program, init's table, init's program.

| Action | Code |
|---|---|
| `Fork` | `BuildRegion0` and the copy in `SwitchFork`, with the borrowed page and the frame that is marked free at the end |
| `Exit` | `SwitchExit`; `ExitTail`, used by `Kernel`, is the rest of `ExitFunc` |
| `Exec` | `ExecFunc` and `LoadProgram`: two refusals, of which the second has changed `brk` |
| `Grow` | `TrapMemoryHandler` above the break |
| `Brk` | `BrkFunc`, which works on idle's table and frees frames by page number, for a break with which it stays in that table |
| `Malloc` | `SetKernelBrk`. malloc is called before or after all that a handler does to memory, so it is a step of its own; it asks for breaks at the ends of pages, as in the recorded run (`TRACE`) |
| `Reload` | idle, resumed for the first time, loads init's program once more |

An operation is done for `p`, the kernel's `curr_proc`, with the addresses of `q`,
which runs. They differ after a rotation (`Rotate`). After memory has run out, a
process whose table has a `NoFrame` does nothing more: the access has no frame.

`BrkFunc` compares the break with the old one and the bottom of Region 0 only, and
its loops index `region0Pt` with it. Moving up, they leave that array when the break
is past the end of the region; moving down, when the break moves by more than is
left above it, because they count up from the old break. The kernel then writes over
whatever lies behind the array. `BrkOverruns` says when. `Memory`, a model of the
tables alone, has no such Brk: its properties are about machines on which none has
happened. `Kernel` takes the machine to `undefined`.

### Kernel

The mapping of `Memory` into `Kernel` takes `live` and `booting` from `Processes`.
`Fork`, `Terminate`, `FirstIdle` and `ExitTail` join an action of `Processes` with
its part of `Memory`; `Grow`, `ExecFunc` and `BrkFunc` change memory only;
`Schedule` is the rest. Four actions lead to `undefined`: `Starved` and `ForkFails`,
the ends of exhausted memory and unmapped pages; `BrkOverrun`, a Brk past the end of
`region0Pt`; and `IdleLost`. In the last, idle runs, or is to be resumed, after a Brk
of another process has replaced or unmapped pages of idle, which hold its program and
the stack it was suspended on; or its return from `KernelStart` would free the frames
of a table of init that has a `NoFrame`.

### Queues, Lists and FamilyLists

`Lists` has the `queue_item`s of a small heap with their `prev`, `proc` and `next`
fields, one action per list operation of `sharedvar.c`, in any order. `malloc`
returns any free item with the links it had before, and the item that
`SetNextProc` unlinks is never freed, as in the code. `curr_proc_item` is the
place of a suspended `TrapClockHandler`. Two loops may leave the defined
behaviour: the scan of the ready queue, which stops at `NULL` only, and the loop of
the clock handler, which goes on from a freed item. They are modelled where they
stay on their list (`ScanSound`, `ResumeSound`); `Processes` has the other outcome
as `undefined`.

`QueuesSpec` is stronger than an implementation of the next-state relation of
`Queues`: each operation is the counterpart of the same name, for the same process.

`FamilyLists` has `next_sibling`, `prev_sibling` and the exit records, which are freed
and allocated again. Its actions are `ForkFunc`, `ExitFunc` and `WaitFunc` without
the scheduler.

### Terminals

Lines are numbered in the order of the writes. `wire[t]` holds what the hardware is
sending. `AddTail` is faithful to two copies: `addToLineTail` and `addToProcTail` get
the head pointer by value, `TtyReceiveFunc` works on a copy of `struct term`. So an
empty list stays empty and `TtyTransmitFunc` finds nothing in `write_out`. `mutex` is
only ever assigned 1 and is therefore not a variable.

## 3. Runs

| Run | Shows |
|---|---|
| `processes` | for every kernel call and interrupt: `TypeOK`; children lists and parent pointers agree (`FamilyInv`); no lost wake-up (`NoLostWakeup`); a process suspended in Fork, Delay or Wait is on the queue or under the flag by which it will be found (`SuspendedAccounted`); idle runs only if nobody is ready (`IdleInv`); an exit orphans all children (`ExitOrphansChildren`); delays end (`DelayEnds`); a ready process gets its turn as `curr_proc`, though perhaps not the machine (`ReadyBecomesCurrent`) |
| `kernel` | for programs without Delay, Brk and terminals: every live process is in exactly one place (`LiveInOnePlace`); the machine idles only after the last exit (`IdleAfterLastExit`); of the frames below those of Region 1, a program runs on none that is free or another's (`UserMemoryOwned`), rotations included; the kernel implements `Family` (`FamilySpec`) and `Memory` (`MemorySpec`) |
| `kept` | with Delay, Brk and terminals: the page tables of live processes stay apart until the machine stops or a Brk leaves `region0Pt` (`TablesKept`) |
| `memory` | `MemoryTypeOK`; a frame below those of Region 1 is free or used once (`FramesOwned`); above them, free frames in use and shared ones are behind pages that Fork has borrowed or tables (`OnlyBorrowedShared`); only Fork loses frames (`OnlyForkLeaks`); what `num_free_pages` counts (`CountDrift`); user memory is one low block and one stack (`StackInOnePiece`) |
| `tables` | with Brks that stay within `region0Pt`, a growing kernel heap and idle's reload at any time: `TablesApart` |
| `lists` | the linked queues are well linked (`ListsSound`), the clock's loop ends (`ScanEnds`), they are the sequences of `Queues` (`QueuesSpec`) |
| `family_lists` | children lists in order and doubly linked (`ChildrenLinked`); waiting cannot deadlock (`WaitsEnd`); one report per child (`ReportedOnce`); they implement `Family` (`FamilyListsSpec`) |
| `terminals` | no line is sent twice (`SentOnce`) |

`LiveInOnePlace`, `IdleAfterLastExit` and `FamilySpec` do not hold for programs that
use Delay or write to terminals; the runs below show the causes. The properties of
`processes` hold for all programs, which is worth knowing: families stay consistent
even while `curr_proc` and the running process differ. `FramesOwned` and
`UserMemoryOwned` do not hold with Brk, which frees frames by page number, nor after
idle has reloaded init's program; `TablesApart` survives both, unless the Brk leaves
the table. `StackInOnePiece`,
`OnlyForkLeaks` and `CountDrift` are about programs that `curr_proc` names
correctly: after a rotation a stack grows in the table of another process.

`ReadyBecomesCurrent` is about the kernel's bookkeeping and not about execution.
`Tick_` and `DelayFunc` make a ready process `curr_proc` by `SetNextProc` and do not
switch to it (`sharedvar.c:369`): a process may become `curr_proc` again and again
while another one runs. So nothing here says that ready processes run, although
`src/README.md:17` claims that they switch; `current_is_caller` shows the cause.

`FramesOwned` and `UserMemoryOwned` are about the frames below those of Region 1,
which `findFreePage` hands out first. Above them both are false: `SwitchFork` marks
the frame behind the borrowed page as free, in use or not (`contextswitch.c:115`),
and one Fork is enough for a program to run on a free frame. `OnlyBorrowedShared`
says how far the damage goes: to the frames behind the pages from the first one that
was above the kernel break at boot up to the present break, one of which a Fork
borrows, and behind the pages that hold tables. It takes a heap that does not reach
the tables, which `MaxKernelBrk` ensures in the run. The run has no rotation: that
`FramesOwned` holds whichever process `curr_proc` is comes from its theorem and, in
the kernel, from `UserMemoryOwned`.

That `IdleAfterLastExit` holds does not contradict the known bug of
`src/README.md:24`, a forked process that calls exec and "ends up in idle". The
tests that show it, `init13.c` and `execTestProg.c`, call Delay, and the run
`kernel` is about programs that do not; with Delay the property is false, as
`preempted_is_ready` and `exit_runs_next` explain.

Four runs show where the code departs from what its own comments and README say;
each is expected to end in a violation of one property.

| Run | What the counterexample shows |
|---|---|
| `current_is_caller` | after a rotation by `Tick_`, GetPid returns the pid of another process |
| `preempted_is_ready` | a process that runs while a delay ends is switched out and queued nowhere |
| `wait_returns` | removing the only exit record writes through `NULL` |
| `exit_runs_next` | a process that exits after a Delay is its own successor, and loops in the kernel |

Other departures, most of them a single step, are visible in the models and have
no run of their own:

* `Exit(s)` always records status 0 (`handlers.c:44`), and a process that the kernel
  terminates shows status 1 and not `ERROR` (`handlers.c:188`).
* An Exec refused for lack of physical memory has changed the break of its caller
  (`load.c:143`); one whose result is -2 returns success (`exec.c:10`).
* The check of physical memory passes with too few frames (`load.c:144`,
  `CountDrift` says by how much).
* A Brk that succeeds maps pages of idle and none of its caller (`brk.c:28`); one past
  the end of the region writes past the end of `region0Pt` (`brk.c:22`, and `brk.c:16`
  on the way down).
* The page that holds a process's table is released only when an exiting process
  succeeds itself (`exit.c:89`).
* After a rotation, stack growth enlarges the stack of another process
  (`handlers.c:217`).
* The first time idle runs, it loads init's program anew into init's table
  (`yalnix.c:254`).
* The scan of the ready queue (`sharedvar.c:335`) and the loop of the clock handler
  (`handlers.c:112`) may go on in items that are not on their list.
* A typed line is lost (`ttyread.c:12`); the end of a transmission resumes another
  process than its writer, whose call may never return (`ttywrite.c:46`); a second
  write does not wait for the first (`ttywrite.c:73`).

### Bounds

* `MaxPid` limits Fork. With 3 (`processes`, `kernel`, `memory`) there are idle and
  three processes, enough for a grandparent, a parent and a child, for two siblings,
  and for a ready queue of two while a third runs. `family_lists` uses 5, for four
  siblings that exit in any order. `kept`, `tables` and `terminals` use 2: their
  questions are about two processes.
* `MaxDelay` is 2 in `processes`, so that delays of different lengths overlap and a
  delay survives a tick; elsewhere 1, as a delay of one tick already sits in the
  queue across a suspended scan.
* `MaxTransmits` is the number of outstanding transmit interrupts: 1 in `processes`,
  2 in `terminals`, one per terminal or two for one.
* `Status` is `{0, 7}`: a status equal to what the handler passes and one that
  differs.
* `ticks_passed` is kept up to 3: the code only asks whether it exceeds 2.
* `Calls` and `Ops` are the sets of calls and operations that take place.
* `PAGE_TABLE_LEN` is 8 with one page of kernel stack, one invalid page and a kernel
  of one page: room for a program of one to three pages, for a stack that grows, and
  for three page tables in Region 1. `NumPages` is 16 or 17, so few that every
  instance runs out of memory after two or three processes.
* `ProgramPages` includes a size that fits, one that is refused for lack of frames
  after some forks and, in `memory`, one that does not fit a table at all.
* `MaxStack` limits how far a stack grows, `MaxKernelBrk` how far the heap does: to
  2, below the page tables, which the code does not protect from it.
* `Breaks` are the breaks programs ask for. In `kept` they are 0 (refused), 1 (one
  page down from where a program starts), 8 (the end of the region, up through the
  stack and kernel stack of idle) and 9 (one page past it, the first that overruns),
  in `tables` 0, 1, 2 and 9, with the old break of the program and without the end
  of the region. Steps down from 8 overrun, too. `kernel` and `memory` make no Brk.
  `MaxCount` bounds Brk, because a break that moves down adds to `num_free_pages`
  without limit.
* `Item` has three `queue_item`s in `lists` and four exit records in `family_lists`:
  lists of one, two and three elements, and items that change list.
* `MaxLines` is 2: two writers on one terminal, or on two.

### Fairness

`FairSpec` assumes weak fairness of `Resume`, since the kernel runs to its next
switch once it has been entered, and strong fairness of `TrapClockHandler`, since
the machine's clock keeps ticking: an interrupt raised while the kernel runs stays
pending and is taken on the return to user mode. Nothing is assumed of the programs
or of the terminals. The liveness properties exclude behaviours in which the machine
stops.

## 4. Proofs

All theorems hold for every value of the constants that the named assumptions
admit: any number of processes, items, terminals, pages and frames, any delays and
any programs. Where a theorem has a hypothesis of its own it is in the table.

| Module | Theorem | Statement | Hypothesis |
|---|---|---|---|
| `Processes_proofs` | `TypeCorrect` | `Spec => []TypeOK` | |
| | `FamilyCorrect` | `Spec => []FamilyInv` | |
| | `WakeupCorrect` | `Spec => []NoLostWakeup` | |
| | `IdleCorrect` | `Spec => []IdleInv` | |
| | `OrphansCorrect` | `Spec => ExitOrphansChildren` | |
| `Scheduling_proofs` | `SuspendedCorrect` | `Spec => []SuspendedAccounted` | |
| | `OnePlaceCorrect` | `Spec => []LiveInOnePlace` | no Delay, no TtyWrite |
| | `IdleLastCorrect` | `Spec => []IdleAfterLastExit` | no Delay, no TtyWrite |
| | `FamilyRefinement` | `Spec => FamilySpec` | no Delay, no TtyWrite |
| `Terminals_proofs` | `ProcessesWithTerminals` | four invariants of `Processes` under `TermSpec` | |
| | `SentOnceCorrect` | `TermSpec => []SentOnce` | |
| `Memory_proofs` | `MemoryTypeCorrect` | `Spec => []MemoryTypeOK` | |
| | `FramesOwnedCorrect` | `Spec => []FramesOwned` | no Brk, no Delay, not both Malloc and Idle |
| | `StackInOnePieceCorrect` | `Spec => []StackInOnePiece` | no Rotate, no Delay |
| | `TablesApartCorrect` | `Spec => []TablesApart` | `HeapBounded` |
| | `OnlyForkLeaksCorrect` | `Spec => []OnlyForkLeaks` | no Brk, Delay, Idle, Rotate |
| | `CountDriftCorrect` | `Spec => []CountDrift` | no Brk, Delay, Idle, Rotate |
| `Kernel_proofs` | `MemoryRefinement` | `KernelSpec => MemorySpec` | no Delay, no TtyWrite |
| | `ProcessesWithMemory` | `FamilySpec`, `LiveInOnePlace` and `IdleAfterLastExit` under `KernelSpec` | no Delay, no TtyWrite |
| | `TablesKeptCorrect` | `KernelSpec => []TablesKept` | |
| | `UserMemoryOwnedCorrect` | `KernelSpec => []UserMemoryOwned` | no Delay, TtyWrite, Brk, Malloc |
| `Lists_proofs` | `ListsSoundCorrect` | `Spec => []ListsSound` | |
| | `ScanEndsCorrect` | `Spec => []ScanEnds` | |
| | `QueuesRefinement` | `Spec => QueuesSpec` | |
| `FamilyLists_proofs` | `ChildrenLinkedCorrect` | `Spec => []ChildrenLinked` | |
| | `WaitsEndCorrect` | `Spec => []WaitsEnd` | |
| | `ReportedOnceCorrect` | `Spec => []ReportedOnce` | |
| | `FamilyListsRefinement` | `Spec => FamilyListsSpec` | |

`Counting` holds what these proofs need of finite sets of numbers: the number of
elements up to a given one, and sets that correspond one to one.

### Assumptions

`ConstantsAssumption` (`Processes`), `MemoryAssumption` (`Memory`), `KernelAssumption`
(`Kernel`: the sizes of `Memory` as `Kernel` instantiates them), `ItemAssumption`
(`Lists`) and `FamilyListsAssumption` (`FamilyLists`) say that the constants are
numbers and finite sets of the right kind. `MemoryAssumption` says two things more:
physical memory has a frame for every page of both regions, which the one-to-one
mapping of `initPT` needs, and the first two programs fit a table and physical memory,
without which the machine does not boot.

`TablesApart` and `TablesKept` need no hypothesis on the calls, and `Breaks` is any
set of numbers; what they say of a machine on which a Brk has left `region0Pt` is
nothing, as such a Brk is no step of `Memory` and ends the run of `Kernel`.

The hypotheses on `Calls` and `Ops` leave out what breaks the property: with one of
them dropped, TLC has a counterexample on a small instance. Exceptions are named.

* Delay and TtyWrite: a process that a delay or a transmission wakes preempts the
  one that runs without queueing it, and a process that exits after a Delay may
  succeed itself. `LiveInOnePlace`, `IdleAfterLastExit` and `MemorySpec` are false
  with either of them, `FamilySpec` and `UserMemoryOwned` with Delay (runs
  `preempted_is_ready` and `exit_runs_next`). For the last two TLC has found no
  counterexample with TtyWrite; there it is the proof, which goes through
  `LiveInOnePlace`, that needs it away.
* Brk frees frames by page number. With Delay, idle loads init's program into init's
  table while other processes run; with Idle it does so after the last exit, when
  frames of init may be the kernel heap's, if malloc has taken some; init's table
  then holds frames and is nobody's. `Kernel` has no Malloc, and the theorem only
  says that the name is not in `Calls`.
* Rotate: a stack grows in the table of `curr_proc`, from the page the running
  process has touched, and can leave a hole or replace frames that are then lost.
* `HeapBounded`: the kernel heap and the tables of all processes ever created fit in
  Region 1 below the two pages at its top. `SetKernelBrk` and `BuildRegion0` check
  no such thing, so the theorem says how much heap the kernel can afford.

### Processes

The inductive invariant is `IInv == TypeOK /\ SchedOK /\ FamilyPart`.

* `SchedOK` says that the queues and `curr_proc` name created processes only, that
  idle is on no queue, and that idle is current exactly when it runs. It is needed
  because `FamilyInv` speaks of created processes: a fork or an exit in the name
  of a process that does not exist yet would break it.
* `FamilyPart` is `FamilyInv` and `NoLostWakeup` with three additions. `FreshApart`:
  a process id not handed out yet has no children, is not waiting and is nobody's
  child or parent, so that Fork makes a child that is on no list. `ListsApart`:
  whoever is on a children list has that parent or is an orphan, so that an
  exiting process, whose list is never emptied, orphans nobody else's children.
  `IdleApart`: idle has no family, so that no exit wakes it.

Fork adds the new process on both sides of the relation; Exit removes the process
from its parent's list and clears the parent pointers of its children before it is
dead; no other action touches either side. A waiting process has a live child at
the moment it blocks, `FamilyInv` keeps that child on its list until it exits, and
the exit clears the flag and leaves the record in the same step. `curr_proc` may be
dead or a process that does not run; the proof does not assume otherwise.

`SuspendedAccounted` is inductive with `IInv`: only an exit, a delay that ends and a
dispatch take a process off a queue, and each of them resumes it or queues it.

`PInv` adds `NoDevices` (nobody is delayed, nothing is transmitted) and `OnePlace`:
the ready queue holds live processes that do not wait, each once, and not
`curr_proc`. `IdleAfterLastExit` follows from it and from `ParentOlder`: if nobody
is ready and idle runs, all live processes wait, and the youngest of them has no
child to wait for. The same facts make the caller of every step of
`FamilyRefinement` runnable.

### Memory and Kernel

The operations work on tables by `Taken` (the n lowest free frames) and `Assign`.
The lemmas `FindFreePage`, `AssignGives` and the like say what the provers need of
them: the frames were free, they are different, and there are as many as asked for
or memory is exhausted.

* `MInv` is `MemoryTypeOK` and `HeapOK`: the pages below the kernel break are mapped
  and two pages at the top are not, so that `BorrowR1Page` finds one.
* `FInv` adds that low frames in use are not free and are used once, over all tables
  as one function (`Owned`), and two facts about the table that init leaves behind
  when it exits. One lemma (`Replaced` implies `Owned` again) covers all operations:
  one table gets frames that were free or that are given back in the same step.
* `SInv` says of each live process that its mapped pages are a low block and a
  stack; `TInv` that the n-th process has its table in the n-th page from the top.
* `AInv` is the account. It joins `FInv` and `SInv` with `HeapLow` (no page above the
  kernel break has a low frame), `BreaksAbove` (no break below the pages that are
  never mapped) and the two properties themselves. `SInv` is needed because a stack
  that grew over mapped pages would lose their frames, `HeapLow` because a heap that
  did would. Each operation has a lemma that says how many frames it takes, that
  all of them are in the table it fills (`Holds`) or, in Fork, that all but one
  kernel stack are, and that the count moves by the same number: also when
  `findFreePage` fails half-way.

`Kernel_proofs` instantiates `Memory_proofs` as `MP`, with `live` and `booting`
defined by the processes, so that the lemmas and theorems of memory hold in the
kernel. `KInv` is what the mapping needs: `PInv`, and that a process that has exited
is not resumed and idle passes the end of `KernelStart` once. Then every step of the
kernel is an operation of `Memory` for a live `curr_proc` while a live process runs,
and `FInv` carries over; `UserMemoryOwned` follows from it, with the same limit to
the frames below those of Region 1. `TablesKept` does not depend on this: its
invariant `TablesHeld` says that every process ever created, dead or not, keeps the
page of its table until the machine stops.

### Lists

A list is described by the sequence of its items: `IsList(link, h, t, n, s)` says that
s has n different items, starts at the head, ends at the tail and is linked. `Walk`,
a recursive function, equals that sequence (`WalkChain`, by the least position where
they would differ). `LInv` says that the two queues are such lists, disjoint and
allocated, that `prev` leads back along the waiting queue, and that its tail leads
to `NULL`. The next field of the *ready* queue's tail is left open, since the code
does not set it. Each operation is then shown to append, drop or take out an item of
these sequences, which gives the three theorems.

### FamilyLists

`ChildInv` does not speak of walks. `LinksOK` says that the head and the tail of a
live process's list are the least and the greatest of its live children and that the
links of a child lead to the next greater and the next smaller one (`Linked`). A
fork adds a new greatest child and an exit takes one out, whatever its place. Only
then is `List`, the walk from the head to `NULL`, shown to be the children in
increasing order (`ChildrenLinked`). `ParentsOK` says that a parent is alive and
older than its child, and `WaitersOK` that a process that waits has a child. So the
youngest live process does not wait, which is `WaitsEnd`.

`ExitInv` gives every process, dead ones included, a sequence of records, strung by
`next` from its head to its tail, such that all are allocated, all are about
processes that have exited and no two are about the same one (`Filed`). `malloc`
returns an item that is not allocated, so it is on no list, and the record freed by
Wait is on one list only. That gives `ReportedOnce`, and with `ChildInv` the
refinement of `Family`: an exit appends its record to the parent's sequence and a
Wait takes the first.

### Terminals

`SentOnce` rests on `write_out` being always empty: the two helpers that should add
to it change a copy of the head. With `WireOK`, lines on the wires have different
numbers, none above `written` and none in `sent`.

### Only model-checked

* `DelayEnds` and `ReadyBecomesCurrent`: liveness under fairness is out of the
  prover's reach.
* `OnlyBorrowedShared`: its inductive invariant, an account of the frames above
  `LowFrames`, is not written yet.

All other properties of the passing runs are stated by a theorem.

## 5. Not modelled

* Contents of memory, protection bits, registers and the TLB. That a page table is
  right does not say that the bytes behind it are. In particular a process, its kernel
  stack included, goes on as it was when a frame of it has been given away, as Brk and
  the end of Fork allow; only for idle does `IdleLost` ask whether its pages are still
  there.
* What a Brk that leaves `region0Pt` overwrites.
* The steps of `KernelStart` before init runs: they are one initial state.
* Contents of terminal lines, and the copy of a line into the buffer of `TtyRead`,
  which no behaviour of the code reaches.
* What `free` does to the memory it is given: a freed exit record is read by
  `WaitFunc` as it was.
* `PushProcToWaitingQueue`, which nothing calls.
* The simulated machine and the C library: not part of this repository. `malloc`
  is assumed to return an item.
* Test programs: a process of the models makes any sequence of calls.

## 6. Plan

1. Prove `OnlyBorrowedShared`, under the hypotheses of `FramesOwned` and
   `HeapBounded`.
2. Carry the memory theorems further into the kernel: `OnlyForkLeaks` and
   `StackInOnePiece` speak of `Memory` alone, with calls in the name of the process
   that runs; in `Kernel` they need a set of calls under which nothing rotates.
3. Weaken hypotheses: `FamilySpec` and `UserMemoryOwned` seem to hold with TtyWrite,
   and need an invariant that lets a process be in no place; `FramesOwned` leaves out
   every Brk, and a Brk that only moves up takes frames as a growing stack does.
4. Say of the writers on a terminal which ones are resumed, and of a rotated process
   when it executes again, once an interrupted handler's context has a place of its
   own in the properties.
5. Fewer steps in the longest proofs (`AInvStep`, `ExitInv` after an exit), by lemmas
   that several actions share.
