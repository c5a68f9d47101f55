-------------------------- MODULE Processes_proofs --------------------------
(***************************************************************************)
(* Proofs about Processes.tla, for every number of processes, every set of *)
(* calls and every bound.                                                  *)
(***************************************************************************)
EXTENDS Processes, FiniteSetTheorems, TLAPS

-----------------------------------------------------------------------------
(* Type correctness.                                                        *)

\* RemoveItemFromWaitingQueue leaves a queue of processes.
LEMMA RemoveAtType ==
    ASSUME NEW S, NEW s \in Seq(S), NEW j \in 1 .. Len(s)
    PROVE  RemoveAt(s, j) \in Seq(S)
  BY DEF RemoveAt

\* And no process that was not there.
LEMMA RemoveAtElements ==
    ASSUME NEW S, NEW T, NEW s \in Seq(S), NEW j \in 1 .. Len(s),
           \A i \in 1 .. Len(s) : s[i] \in T
    PROVE  \A k \in 1 .. Len(RemoveAt(s, j)) : RemoveAt(s, j)[k] \in T
<1> DEFINE a == SubSeq(s, 1, j - 1)
           b == SubSeq(s, j + 1, Len(s))
<1>1. /\ a \in Seq(S) /\ Len(a) = j - 1
      /\ \A k \in 1 .. Len(a) : a[k] = s[k]
    OBVIOUS
<1>2. /\ b \in Seq(S) /\ Len(b) = Len(s) - j
      /\ \A k \in 1 .. Len(b) : b[k] = s[k + j]
    OBVIOUS
<1>3. RemoveAt(s, j) = a \o b
    BY DEF RemoveAt
<1> HIDE DEF a, b
<1>4. /\ Len(a \o b) = Len(s) - 1
      /\ \A k \in 1 .. Len(a \o b) :
            (a \o b)[k] = IF k <= Len(a) THEN a[k] ELSE b[k - Len(a)]
    BY <1>1, <1>2
<1>5. \A k \in 1 .. Len(a) : a[k] \in T
    BY <1>1
<1>6. ASSUME NEW k \in 1 .. Len(b)
      PROVE  b[k] \in T
  <2>1. Len(s) \in Nat /\ j \in Nat
      OBVIOUS
  <2>2. Len(b) = Len(s) - j /\ b[k] = s[k + j]
      BY <1>2
  <2>3. k + j \in 1 .. Len(s)
      BY <2>1, <2>2
  <2> QED
      BY <2>2, <2>3
<1> QED
    BY <1>1, <1>2, <1>3, <1>4, <1>5, <1>6

\* Ticking down leaves integers.
LEMMA TickDownType ==
    ASSUME delay_ticks \in [Proc -> Int], NEW i \in Int, NEW j \in Int
    PROVE  TickDown(i, j) \in [Proc -> Int]
<1> SUFFICES ASSUME NEW p \in Proc
             PROVE  delay_ticks[p]
                      - Cardinality({k \in i .. j : waiting_queue[k] = p}) \in Int
    BY DEF TickDown
<1>1. IsFiniteSet(i .. j)
    BY FS_Interval
<1>2. IsFiniteSet({k \in i .. j : waiting_queue[k] = p})
    BY <1>1, FS_Subset
<1>3. Cardinality({k \in i .. j : waiting_queue[k] = p}) \in Nat
    BY <1>2, FS_CardinalityType
<1> QED
    BY <1>3

\* What FindReadyPcb returns.
LEMMA FindReadyPcbType ==
    ASSUME NEW q \in Seq(Proc)
    PROVE  /\ FindReadyPcb(q).proc \in Proc
           /\ FindReadyPcb(q).rest \in Seq(Proc)
<1>1. CASE q = <<>>
  <2>1. idle \in Proc
      BY ConstantsAssumption DEF Proc, idle
  <2> QED
      BY <1>1, <2>1 DEF FindReadyPcb
<1>2. CASE q # <<>>
  <2>1. Head(q) \in Proc /\ Tail(q) \in Seq(Proc)
      BY <1>2
  <2> QED
      BY <1>2, <2>1 DEF FindReadyPcb, RemoveItemFromReadyQueue
<1> QED
    BY <1>1, <1>2

\* A switch that saves a context keeps the types.
LEMMA DispatchType ==
    ASSUME TypeOK, NEW at \in Points, NEW q \in Seq(Proc), Dispatch(at, q)
    PROVE  /\ ctx' \in [Proc -> [at : Points, stack : Proc] \cup {Stale}]
           /\ curr_proc' \in Proc
           /\ cpu' \in Proc
           /\ queue' \in Seq(Proc)
           /\ kmode' \in {"user", "kernel"} \cup Stops
  BY FindReadyPcbType DEF TypeOK, Dispatch, SwitchExist

\* A stop changes nothing but kmode.
LEMMA CrashType ==
    ASSUME TypeOK, NEW m \in Stops, Crash(m)
    PROVE  TypeOK'
  BY DEF TypeOK, Crash

LEMMA ExitType ==
    ASSUME TypeOK, NEW status \in Int, ExitFunc(status)
    PROVE  TypeOK'
<1> DEFINE par == parent[curr_proc]
<1>1. parent' \in [Proc -> Proc \cup {NULL}]
    BY DEF ExitFunc, OrphanChildren, TypeOK
<1>2. CASE par = NULL
  <2>1. /\ SwitchExit(curr_proc, queue)
        /\ UNCHANGED <<children, exited_children, waiting>>
      BY <1>2 DEF ExitFunc
  <2>2. Dispatch("exit", queue) /\ dead' = dead \cup {curr_proc}
      BY <2>1 DEF SwitchExit
  <2> QED
      BY <1>1, <2>1, <2>2, DispatchType DEF TypeOK, ExitFunc, Points
<1>3. CASE par # NULL
  <2>1. par \in Proc
      BY <1>3 DEF TypeOK
  <2>2. /\ WakeParent(par).waiting \in [Proc -> BOOLEAN]
        /\ WakeParent(par).queue \in Seq(Proc)
      BY <2>1 DEF WakeParent, PushProcToQueue, TypeOK
  <2>3. /\ children' = RemoveChildFromParent(curr_proc, par)
        /\ exited_children' = PushExitToExited(curr_proc, par, status)
        /\ waiting' = WakeParent(par).waiting
        /\ SwitchExit(curr_proc, WakeParent(par).queue)
      BY <1>3 DEF ExitFunc
  <2>4. children' \in [Proc -> SUBSET Proc]
      BY <2>1, <2>3 DEF RemoveChildFromParent, TypeOK
  <2>5. exited_children' \in [Proc -> Seq([pid : Proc, status : Int])]
      BY <2>1, <2>3 DEF PushExitToExited, TypeOK
  <2>6. Dispatch("exit", WakeParent(par).queue) /\ dead' = dead \cup {curr_proc}
      BY <2>3 DEF SwitchExit
  <2> QED
      BY <1>1, <2>2, <2>3, <2>4, <2>5, <2>6, DispatchType
      DEF TypeOK, ExitFunc, Points
<1> QED
    BY <1>2, <1>3
LEMMA CollectType ==
    ASSUME TypeOK, Collect(curr_proc)
    PROVE  TypeOK'
<1>1. CASE Crash("fault")
    BY <1>1, CrashType DEF Stops
<1>2. CASE /\ RemoveHeadFromExitQueue(curr_proc)
           /\ ctx' = [ctx EXCEPT ![cpu] = Stale]
           /\ kmode' = "user"
           /\ UNCHANGED <<next_proc_id, parent, children, waiting, delay_ticks,
                          dead, queue, waiting_queue, ticks_passed, curr_proc,
                          cpu, transmits>>
  <2>1. exited_children' \in [Proc -> Seq([pid : Proc, status : Int])]
    <3>1. exited_children[curr_proc] # <<>>
        BY <1>2 DEF RemoveHeadFromExitQueue, TypeOK
    <3> QED
        BY <1>2, <3>1 DEF RemoveHeadFromExitQueue, TypeOK
  <2> QED
      BY <1>2, <2>1 DEF TypeOK
<1> QED
    BY <1>1, <1>2 DEF Collect

LEMMA ClockFromType ==
    ASSUME TypeOK, NEW i \in Nat \ {0}, ClockFrom(i)
    PROVE  TypeOK'
<1>0. /\ delay_ticks \in [Proc -> Int]
      /\ waiting_queue \in Seq(Proc)
      /\ i \in Int
    BY DEF TypeOK
<1>1. CASE /\ delay_ticks' = TickDown(i, Len(waiting_queue))
           /\ UNCHANGED waiting_queue
           /\ Tick_
  <2>1. delay_ticks' \in [Proc -> Int]
    <3>1. Len(waiting_queue) \in Int
        BY <1>0
    <3>2. TickDown(i, Len(waiting_queue)) \in [Proc -> Int]
        BY <1>0, <3>1, TickDownType
    <3> QED
        BY <1>1, <3>2
  <2>2. /\ queue' \in Seq(Proc)
        /\ curr_proc' \in Proc
        /\ ticks_passed' \in 0 .. 3
    <3>1. CASE queue # <<>> /\ SetNextProc /\ ticks_passed' = 0
      <4>1. queue \in Seq(Proc) /\ curr_proc \in Proc
          BY DEF TypeOK
      <4>2. Append(queue, curr_proc) \in Seq(Proc) \ {<<>>}
          BY <4>1
      <4> QED
          BY <3>1, <4>1, <4>2 DEF SetNextProc, PushProcToQueue
    <3>2. CASE /\ UNCHANGED <<queue, curr_proc>>
               /\ ticks_passed' = Min2(ticks_passed + 1, 3)
        BY <3>2 DEF Min2, TypeOK
    <3> QED
        BY <1>1, <3>1, <3>2 DEF Tick_
  <2>4. ctx' \in [Proc -> [at : Points, stack : Proc] \cup {Stale}]
      BY <1>1 DEF Tick_, TypeOK
  <2> QED
      BY <1>1, <2>1, <2>2, <2>4 DEF ClockFrom, Tick_, TypeOK
<1>2. ASSUME NEW j \in Expiring(i),
             /\ delay_ticks' = TickDown(i, j)
             /\ waiting_queue' = RemoveItemFromWaitingQueue(j)
             /\ queue' = PushProcToQueue(queue, waiting_queue[j])
             /\ SwitchExist("clock", waiting_queue[j])
             /\ UNCHANGED ticks_passed
      PROVE  TypeOK'
  <2>1. j \in 1 .. Len(waiting_queue)
      BY <1>2 DEF Expiring, TypeOK
  <2>2. delay_ticks' \in [Proc -> Int]
    <3>1. j \in Int
        BY <1>0, <2>1
    <3>2. TickDown(i, j) \in [Proc -> Int]
        BY <1>0, <3>1, TickDownType
    <3> QED
        BY <1>2, <3>2
  <2>3. waiting_queue' \in Seq(Proc)
      BY <1>2, <2>1, RemoveAtType DEF RemoveItemFromWaitingQueue, TypeOK
  <2>4. waiting_queue[j] \in Proc
      BY <2>1 DEF TypeOK
  <2>5. /\ queue' \in Seq(Proc)
        /\ ctx' \in [Proc -> [at : Points, stack : Proc] \cup {Stale}]
        /\ curr_proc' \in Proc
        /\ cpu' \in Proc
      BY <1>2, <2>4 DEF PushProcToQueue, SwitchExist, Points, TypeOK
  <2> QED
      BY <1>2, <2>2, <2>3, <2>5 DEF ClockFrom, SwitchExist, TypeOK
<1> QED
    BY <1>1, <1>2 DEF ClockFrom

\* Every step keeps the types.
LEMMA TypeStep ==
    ASSUME TypeOK, [Next]_vars
    PROVE  TypeOK'
<1>1. CASE ForkFunc
  <2>1. next_proc_id \in Proc
      BY <1>1 DEF ForkFunc, TypeOK, Proc
  <2>2. /\ parent' \in [Proc -> Proc \cup {NULL}]
        /\ children' \in [Proc -> SUBSET Proc]
        /\ next_proc_id' \in 2 .. MaxPid + 1
    <3>1. next_proc_id' \in 2 .. MaxPid + 1
        BY <1>1, ConstantsAssumption DEF ForkFunc, TypeOK
    <3> QED
        BY <1>1, <2>1, <3>1 DEF ForkFunc, TypeOK
  <2>3. /\ ctx' \in [Proc -> [at : Points, stack : Proc] \cup {Stale}]
        /\ queue' \in Seq(Proc)
        /\ curr_proc' \in Proc
        /\ cpu' \in Proc
    <3>1. SwitchFork(curr_proc, next_proc_id)
        BY <1>1 DEF ForkFunc
    <3>2. queue' \in Seq(Proc)
        BY <3>1 DEF SwitchFork, PushProcToQueue, TypeOK
    <3>3. ctx' \in [Proc -> [at : Points, stack : Proc] \cup {Stale}]
        BY <3>1, <2>1 DEF SwitchFork, Points, TypeOK
    <3> QED
        BY <3>1, <3>2, <3>3, <2>1 DEF SwitchFork
  <2> QED
      BY <1>1, <2>2, <2>3 DEF ForkFunc, SwitchFork, TypeOK
<1>2. ASSUME NEW s \in Status, Exit(s)
      PROVE  TypeOK'
    BY <1>2, ExitType DEF Exit
<1>3. CASE TrapIllegalHandler \/ TrapMathHandler \/ TrapMemoryHandler
  <2>1. ASSUME UNCHANGED vars
        PROVE  TypeOK'
      BY <2>1 DEF TypeOK, vars
  <2> QED
      BY <1>3, <2>1, ExitType
      DEF TrapIllegalHandler, TrapMathHandler, TrapMemoryHandler
<1>4. CASE WaitFunc
  <2>1. CASE Collect(curr_proc)
      BY <2>1, CollectType
  <2>2. CASE UNCHANGED vars
      BY <2>2 DEF TypeOK, vars
  <2>3. CASE /\ waiting' = [waiting EXCEPT ![curr_proc] = TRUE]
             /\ Dispatch("wait", queue)
             /\ UNCHANGED <<next_proc_id, parent, children, exited_children,
                            delay_ticks, dead, waiting_queue, ticks_passed,
                            transmits>>
      BY <2>3, DispatchType DEF TypeOK, Points
  <2> QED
      BY <1>4, <2>1, <2>2, <2>3 DEF WaitFunc
<1>5. ASSUME NEW n \in 1 .. MaxDelay, DelayFunc(n)
      PROVE  TypeOK'
  <2>1. CASE Crash("undefined")
      BY <2>1, CrashType DEF Stops
  <2>2. ASSUME NEW k \in 0 .. Len(queue),
               /\ delay_ticks' = [delay_ticks EXCEPT ![curr_proc] = n]
               /\ waiting_queue' = PushItemToWaitingQueue(curr_proc)
               /\ Dispatch("delay", SubSeq(queue, k + 1, Len(queue)))
               /\ UNCHANGED <<next_proc_id, parent, children, exited_children,
                              waiting, dead, ticks_passed, transmits>>
        PROVE  TypeOK'
    <3>1. SubSeq(queue, k + 1, Len(queue)) \in Seq(Proc)
        BY DEF TypeOK
    <3>2. delay_ticks' \in [Proc -> Int] /\ waiting_queue' \in Seq(Proc)
        BY <2>2 DEF PushItemToWaitingQueue, TypeOK
    <3> QED
        BY <2>2, <3>1, <3>2, DispatchType DEF TypeOK, Points
  <2> QED
      BY <1>5, <2>1, <2>2 DEF DelayFunc
<1>6. CASE TtyWriteFunc \/ TrapTTYTransmitHandler
  <2>1. transmits' \in 0 .. MaxTransmits
      BY <1>6, ConstantsAssumption
      DEF TtyWriteFunc, TrapTTYTransmitHandler, TtyTransmitFunc, TypeOK
  <2> QED
      BY <1>6, <2>1, DispatchType
      DEF TtyWriteFunc, TrapTTYTransmitHandler, TtyTransmitFunc, TypeOK, Points
<1>7. CASE TtyReadFunc \/ ForkUnmapped
    BY <1>7, CrashType DEF TtyReadFunc, ForkUnmapped, Stops
<1>8. CASE TrapClockHandler
    BY <1>8, ClockFromType DEF TrapClockHandler
<1>9. CASE Resume
  <2>1. CASE ResumeReturn
      BY <2>1 DEF ResumeReturn, TypeOK
  <2>2. CASE ResumeWait
      BY <2>2, CollectType DEF ResumeWait
  <2>3. CASE ResumeClock
    <3>1. ASSUME NEW i \in 1 .. Len(waiting_queue) + 1, ClockFrom(i)
          PROVE  TypeOK'
      <4>1. i \in Nat \ {0}
          BY DEF TypeOK
      <4> QED
          BY <3>1, <4>1, ClockFromType
    <3> QED
        BY <2>3, <3>1, CrashType DEF ResumeClock, Stops
  <2>4. CASE ResumeExit
      BY <2>4, CrashType DEF ResumeExit, Stops
  <2>5. CASE ResumeForeign
      BY <2>5, CrashType DEF ResumeForeign, Stops
  <2> QED
      BY <1>9, <2>1, <2>2, <2>3, <2>4, <2>5 DEF Resume
<1>10. CASE Stopped \/ UNCHANGED vars
    BY <1>10 DEF Stopped, TypeOK, vars
<1> QED
    BY <1>1, <1>2, <1>3, <1>4, <1>5, <1>6, <1>7, <1>8, <1>9, <1>10 DEF Next

\* KernelStart leaves a state of the right types.
LEMMA InitType == Init => TypeOK
<1> SUFFICES ASSUME Init PROVE TypeOK
    OBVIOUS
<1>1. idle \in Proc /\ init \in Proc
    BY ConstantsAssumption DEF Proc, idle, init
<1>2. 2 \in 2 .. MaxPid + 1 /\ 0 \in 0 .. MaxTransmits
    BY ConstantsAssumption
<1> QED
    BY <1>1, <1>2 DEF Init, create_pcb, SwitchNewProc, TypeOK, Points

\* TypeOK holds in every state the kernel reaches: pcb fields, queues and
\* saved contexts only ever name processes that exist.
THEOREM TypeCorrect == Spec => []TypeOK
  BY InitType, TypeStep, PTL DEF Spec

-----------------------------------------------------------------------------
(* Families.  FamilyInv, NoLostWakeup and IdleInv are not inductive alone:  *)
(* a step of curr_proc must be known to be the step of a process that was   *)
(* created, the pcb that Fork takes must be unused, and a children list     *)
(* that has outlived its process must not reach into another family.        *)

\* The queues hold processes that have been created, and never idle, which
\* runs when there is no other.
SchedOK ==
    /\ curr_proc \in Created
    /\ \A i \in 1 .. Len(queue) : queue[i] \in Created \ {idle}
    /\ \A i \in 1 .. Len(waiting_queue) : waiting_queue[i] \in Created \ {idle}
    /\ curr_proc = idle <=> cpu = idle
    /\ cpu = idle => queue = <<>>

\* A pcb not yet created is in no relation to any other.
FreshApart ==
    /\ dead \subseteq Created
    /\ \A p \in Proc \ Created :
          /\ children[p] = {}
          /\ ~waiting[p]
          /\ \A q \in Proc : p \notin children[q] /\ parent[q] # p

\* Whoever is on a children list has that parent or has become an orphan.
ListsApart ==
    \A p, c \in Proc : c \in children[p] => parent[c] \in {p, NULL}

\* The idle process takes no part in any family.
IdleApart ==
    /\ ~waiting[idle]
    /\ \A c \in Proc : parent[c] # idle

FamilyPart ==
    FreshApart /\ ListsApart /\ IdleApart /\ FamilyInv /\ NoLostWakeup

IInv == TypeOK /\ SchedOK /\ FamilyPart

\* Processes 0 to next_proc_id - 1 are processes.
LEMMA CreatedType ==
    ASSUME TypeOK
    PROVE  /\ Created \subseteq Proc
           /\ idle \in Created
           /\ idle \in Proc
  BY ConstantsAssumption DEF TypeOK, Created, Proc, idle

\* After a switch the queues are in order again.
LEMMA DispatchSched ==
    ASSUME NEW at, NEW q \in Seq(Proc), Dispatch(at, q),
           idle \in Created,
           \A i \in 1 .. Len(q) : q[i] \in Created \ {idle}
    PROVE  /\ curr_proc' \in Created
           /\ cpu' = curr_proc'
           /\ \A i \in 1 .. Len(queue') : queue'[i] \in Created \ {idle}
           /\ cpu' = idle => queue' = <<>>
<1>1. CASE q = <<>>
  <2>1. FindReadyPcb(q).proc = idle /\ FindReadyPcb(q).rest = q
      BY <1>1 DEF FindReadyPcb
  <2>2. curr_proc' = idle /\ cpu' = idle /\ queue' = q
      BY <2>1 DEF Dispatch, SwitchExist
  <2> QED
      BY <1>1, <2>2
<1>2. CASE q # <<>>
  <2>1. FindReadyPcb(q).proc = q[1] /\ FindReadyPcb(q).rest = Tail(q)
      BY <1>2 DEF FindReadyPcb, RemoveItemFromReadyQueue
  <2>2. curr_proc' = q[1] /\ cpu' = q[1] /\ queue' = Tail(q)
      BY <2>1 DEF Dispatch, SwitchExist
  <2>3. q[1] \in Created \ {idle}
      BY <1>2
  <2>4. /\ Len(Tail(q)) = Len(q) - 1
        /\ \A i \in 1 .. Len(Tail(q)) : Tail(q)[i] = q[i + 1]
      BY <1>2
  <2> QED
      BY <2>2, <2>3, <2>4
<1> QED
    BY <1>1, <1>2

\* Putting one more process on a queue.
LEMMA PushInCreated ==
    ASSUME NEW S, NEW T, NEW q \in Seq(S), NEW p \in T, p \in S,
           \A i \in 1 .. Len(q) : q[i] \in T
    PROVE  \A i \in 1 .. Len(Append(q, p)) : Append(q, p)[i] \in T
  OBVIOUS

LEMMA FamilyUnchanged ==
    ASSUME FamilyPart,
           UNCHANGED <<next_proc_id, parent, children, exited_children,
                       waiting, dead>>
    PROVE  FamilyPart'
  BY DEF FamilyPart, FreshApart, ListsApart, IdleApart, FamilyInv,
         NoLostWakeup, Created

\* A step of the clock handler keeps the queues in order.
LEMMA ClockSched ==
    ASSUME TypeOK, SchedOK, NEW i \in Nat \ {0}, ClockFrom(i)
    PROVE  SchedOK'
<1> USE DEF PushProcToQueue
<1>0. Created' = Created /\ Created \subseteq Proc /\ idle \in Created
    BY CreatedType DEF ClockFrom, Created
<1>1. CASE UNCHANGED waiting_queue /\ Tick_
  <2>1. CASE queue # <<>> /\ SetNextProc
    <3>1. curr_proc # idle /\ cpu # idle /\ cpu' = cpu
        BY <1>1, <2>1 DEF SchedOK, Tick_
    <3>2. queue \in Seq(Proc) /\ curr_proc \in Proc
        BY DEF TypeOK
    <3>3. curr_proc' = queue[1] /\ queue' = Tail(Append(queue, curr_proc))
        BY <2>1, <3>2 DEF SetNextProc
    <3>4. \A k \in 1 .. Len(Append(queue, curr_proc)) :
              Append(queue, curr_proc)[k] \in Created \ {idle}
        BY <3>1, <3>2, PushInCreated DEF SchedOK
    <3>5. /\ Len(queue') = Len(Append(queue, curr_proc)) - 1
          /\ \A k \in 1 .. Len(queue') :
                 queue'[k] = Append(queue, curr_proc)[k + 1]
        BY <3>2, <3>3
    <3>6. \A k \in 1 .. Len(queue') : queue'[k] \in Created \ {idle}
        BY <3>2, <3>4, <3>5
    <3>7. queue[1] \in Created \ {idle}
        BY <2>1, <3>2 DEF SchedOK
    <3> QED
        BY <1>0, <1>1, <3>1, <3>3, <3>6, <3>7 DEF SchedOK
  <2>2. CASE UNCHANGED <<queue, curr_proc>>
      BY <1>0, <1>1, <2>2 DEF SchedOK, Tick_
  <2> QED
      BY <1>1, <2>1, <2>2 DEF Tick_
<1>2. ASSUME NEW j \in Expiring(i),
             /\ waiting_queue' = RemoveItemFromWaitingQueue(j)
             /\ queue' = PushProcToQueue(queue, waiting_queue[j])
             /\ SwitchExist("clock", waiting_queue[j])
      PROVE  SchedOK'
  <2>1. j \in 1 .. Len(waiting_queue)
      BY DEF Expiring, TypeOK
  <2>2. waiting_queue[j] \in Created \ {idle}
      BY <2>1 DEF SchedOK
  <2>3. \A k \in 1 .. Len(queue') : queue'[k] \in Created \ {idle}
    <3>1. queue \in Seq(Proc) /\ waiting_queue[j] \in Proc
        BY <2>1 DEF TypeOK
    <3> QED
        BY <1>2, <2>2, <3>1, PushInCreated DEF SchedOK
  <2>4. \A k \in 1 .. Len(waiting_queue') :
            waiting_queue'[k] \in Created \ {idle}
    <3>1. waiting_queue \in Seq(Proc)
        BY DEF TypeOK
    <3> QED
        BY <1>2, <2>1, <3>1, RemoveAtElements
        DEF RemoveItemFromWaitingQueue, SchedOK
  <2> QED
      BY <1>0, <1>2, <2>2, <2>3, <2>4 DEF SchedOK, SwitchExist
<1> QED
    BY <1>1, <1>2 DEF ClockFrom

\* Fork links an unused pcb into the family of curr_proc.
LEMMA ForkStep ==
    ASSUME IInv, ForkFunc
    PROVE  SchedOK' /\ FamilyPart'
<1> DEFINE child == next_proc_id
<1>1. /\ child \in Proc \ Created
      /\ Created' = Created \cup {child}
      /\ Created \subseteq Proc
      /\ child # idle
  <2>1. child \in 2 .. MaxPid /\ next_proc_id' = child + 1 /\ MaxPid \in Nat
      BY ConstantsAssumption DEF IInv, TypeOK, ForkFunc
  <2> QED
      BY <2>1 DEF Created, Proc, idle
<1>2. /\ curr_proc \in Created \ {idle}
      /\ curr_proc \in Proc
    BY DEF IInv, SchedOK, TypeOK, ForkFunc, UserCall
<1>3. /\ parent' = [parent EXCEPT ![child] = curr_proc]
      /\ children' = [children EXCEPT ![curr_proc] = @ \cup {child}]
      /\ UNCHANGED <<exited_children, waiting, dead, waiting_queue>>
      /\ curr_proc' = child
      /\ cpu' = child
      /\ queue' = Append(queue, curr_proc)
    BY DEF ForkFunc, SwitchFork, PushProcToQueue
<1>4. /\ parent \in [Proc -> Proc \cup {NULL}]
      /\ children \in [Proc -> SUBSET Proc]
      /\ queue \in Seq(Proc)
    BY DEF IInv, TypeOK
<1> HIDE DEF child
<1>5. SchedOK'
  <2>1. \A k \in 1 .. Len(queue') : queue'[k] \in Created \ {idle}
      BY <1>2, <1>3, <1>4, PushInCreated DEF IInv, SchedOK
  <2> QED
      BY <1>1, <1>3, <2>1 DEF IInv, SchedOK
<1>6. FreshApart'
    BY <1>1, <1>2, <1>3, <1>4 DEF IInv, FamilyPart, FreshApart
<1>7. ListsApart'
    BY <1>1, <1>2, <1>3, <1>4
    DEF IInv, FamilyPart, FreshApart, ListsApart
<1>8. IdleApart'
    BY <1>1, <1>2, <1>3, <1>4 DEF IInv, FamilyPart, IdleApart
<1>9. FamilyInv'
  <2> SUFFICES ASSUME NEW p \in Created' \ dead'
               PROVE  children'[p] = {c \in Created' \ dead' : parent'[c] = p}
      BY DEF FamilyInv
  <2>1. CASE p = child
    <3>1. children'[p] = {}
        BY <1>1, <1>2, <1>3, <1>4, <2>1 DEF IInv, FamilyPart, FreshApart
    <3>2. \A c \in Proc : parent'[c] # p
        BY <1>1, <1>2, <1>3, <1>4, <2>1 DEF IInv, FamilyPart, FreshApart
    <3> QED
        BY <1>1, <3>1, <3>2
  <2>2. CASE p # child
    <3>1. p \in Created \ dead /\ p \in Proc
        BY <1>1, <1>3, <2>2
    <3>2. children[p] = {c \in Created \ dead : parent[c] = p}
        BY <3>1 DEF IInv, FamilyPart, FamilyInv
    <3>3. child \notin dead /\ dead' = dead
        BY <1>1, <1>3 DEF IInv, FamilyPart, FreshApart
    <3>4. CASE p = curr_proc
        BY <1>1, <1>2, <1>3, <1>4, <3>1, <3>2, <3>3, <3>4
    <3>5. CASE p # curr_proc
        BY <1>1, <1>2, <1>3, <1>4, <3>1, <3>2, <3>3, <3>5
    <3> QED
        BY <3>4, <3>5
  <2> QED
      BY <2>1, <2>2
<1>10. NoLostWakeup'
    BY <1>1, <1>2, <1>3, <1>4 DEF IInv, FamilyPart, NoLostWakeup
<1> QED
    BY <1>5, <1>6, <1>7, <1>8, <1>9, <1>10 DEF FamilyPart

\* What ExitFunc does to the family relations, with or without a parent.
LEMMA ExitEffect ==
    ASSUME TypeOK, NEW status \in Int, ExitFunc(status)
    PROVE  /\ parent' = [c \in Proc |-> IF c \in children[curr_proc]
                                        THEN NULL ELSE parent[c]]
           /\ dead' = dead \cup {curr_proc}
           /\ Created' = Created
           /\ waiting_queue' = waiting_queue
           /\ \A p \in Proc :
                 /\ p = parent[curr_proc] =>
                        /\ children'[p] = children[p] \ {curr_proc}
                        /\ ~waiting'[p]
                 /\ p # parent[curr_proc] =>
                        /\ children'[p] = children[p]
                        /\ waiting'[p] = waiting[p]
                        /\ exited_children'[p] = exited_children[p]
           /\ \/ Dispatch("exit", queue)
              \/ \E par \in Proc : /\ waiting[par]
                                   /\ Dispatch("exit", Append(queue, par))
<1> DEFINE par == parent[curr_proc]
<1>1. /\ parent' = OrphanChildren(curr_proc)
      /\ Created' = Created
      /\ waiting_queue' = waiting_queue
    BY DEF ExitFunc, Created
<1>2. CASE par = NULL
  <2>1. /\ UNCHANGED <<children, exited_children, waiting>>
        /\ dead' = dead \cup {curr_proc}
        /\ Dispatch("exit", queue)
      BY <1>2 DEF ExitFunc, SwitchExit
  <2>2. NULL \notin Proc
      BY DEF NULL, Proc
  <2> QED
      BY <1>1, <1>2, <2>1, <2>2 DEF OrphanChildren
<1>3. CASE par # NULL
  <2>1. par \in Proc
      BY <1>3 DEF TypeOK
  <2>2. /\ children' = [children EXCEPT ![par] = @ \ {curr_proc}]
        /\ exited_children' = [exited_children EXCEPT
               ![par] = Append(@, [pid |-> curr_proc, status |-> status])]
        /\ waiting' = WakeParent(par).waiting
        /\ dead' = dead \cup {curr_proc}
        /\ Dispatch("exit", WakeParent(par).queue)
      BY <1>3 DEF ExitFunc, SwitchExit, RemoveChildFromParent, PushExitToExited
  <2>3. CASE waiting[par]
    <3>1. /\ waiting' = [waiting EXCEPT ![par] = FALSE]
          /\ Dispatch("exit", Append(queue, par))
        BY <2>2, <2>3 DEF WakeParent, PushProcToQueue
    <3> QED
        BY <1>1, <2>1, <2>2, <2>3, <3>1 DEF OrphanChildren, TypeOK
  <2>4. CASE ~waiting[par]
    <3>1. waiting' = waiting /\ Dispatch("exit", queue)
        BY <2>2, <2>4 DEF WakeParent
    <3> QED
        BY <1>1, <2>1, <2>2, <2>4, <3>1 DEF OrphanChildren, TypeOK
  <2> QED
      BY <2>3, <2>4
<1> QED
    BY <1>2, <1>3


\* Exit takes curr_proc out of its family, whether curr_proc is alive or its
\* pcb has been made current again after its death.
LEMMA ExitStep ==
    ASSUME IInv, NEW status \in Int, ExitFunc(status), cpu # idle
    PROVE  SchedOK' /\ FamilyPart'
<1> DEFINE p == curr_proc
<1>1. /\ parent' = [c \in Proc |-> IF c \in children[p] THEN NULL ELSE parent[c]]
      /\ dead' = dead \cup {p}
      /\ Created' = Created
      /\ waiting_queue' = waiting_queue
    BY ExitEffect DEF IInv
<1>2. \A q \in Proc :
          /\ q = parent[p] => /\ children'[q] = children[q] \ {p}
                              /\ ~waiting'[q]
          /\ q # parent[p] => /\ children'[q] = children[q]
                              /\ waiting'[q] = waiting[q]
                              /\ exited_children'[q] = exited_children[q]
    BY ExitEffect DEF IInv
<1>3. p \in Created \ {idle} /\ p \in Proc
    BY DEF IInv, SchedOK, TypeOK
<1>4. /\ parent \in [Proc -> Proc \cup {NULL}]
      /\ children \in [Proc -> SUBSET Proc]
      /\ queue \in Seq(Proc)
      /\ Created \subseteq Proc
      /\ idle \in Created
      /\ NULL \notin Proc
  <2>1. NULL \notin Proc
      BY DEF NULL, Proc
  <2>2. Created \subseteq Proc /\ idle \in Created
      BY CreatedType DEF IInv
  <2> QED
      BY <2>1, <2>2 DEF IInv, TypeOK
<1>5. SchedOK'
  <2>1. \/ Dispatch("exit", queue)
        \/ \E par \in Proc : /\ waiting[par]
                             /\ Dispatch("exit", Append(queue, par))
      BY ExitEffect DEF IInv
  <2>2. \A i \in 1 .. Len(queue) : queue[i] \in Created \ {idle}
      BY DEF IInv, SchedOK
  <2>3. CASE Dispatch("exit", queue)
      BY <1>1, <1>4, <2>2, <2>3, DispatchSched DEF IInv, SchedOK
  <2>4. ASSUME NEW par \in Proc, waiting[par],
               Dispatch("exit", Append(queue, par))
        PROVE  SchedOK'
    <3>1. par \in Created \ {idle}
        BY <2>4 DEF IInv, FamilyPart, FreshApart, IdleApart
    <3>2. Append(queue, par) \in Seq(Proc)
        BY <1>4
    <3>3. \A i \in 1 .. Len(Append(queue, par)) :
              Append(queue, par)[i] \in Created \ {idle}
        BY <1>4, <2>2, <3>1, PushInCreated
    <3> QED
        BY <1>1, <1>4, <2>4, <3>2, <3>3, DispatchSched DEF IInv, SchedOK
  <2> QED
      BY <2>1, <2>3, <2>4
<1> HIDE DEF p
<1>6. FreshApart'
  <2>1. \A q \in Proc : children'[q] \subseteq children[q]
      BY <1>2
  <2>2. \A q \in Proc : parent'[q] \in {parent[q], NULL}
      BY <1>1
  <2>3. dead' \subseteq Created
      BY <1>1, <1>3 DEF IInv, FamilyPart, FreshApart
  <2>4. ASSUME NEW q \in Proc \ Created
        PROVE  /\ children'[q] = {}
               /\ ~waiting'[q]
               /\ \A r \in Proc : q \notin children'[r] /\ parent'[r] # q
      BY <1>2, <1>4, <2>1, <2>2 DEF IInv, FamilyPart, FreshApart
  <2> QED
      BY <1>1, <2>3, <2>4 DEF FreshApart
<1>7. ListsApart'
    BY <1>1, <1>2, <1>3, <1>4 DEF IInv, FamilyPart, ListsApart
<1>8. IdleApart'
    BY <1>1, <1>2, <1>3, <1>4 DEF IInv, FamilyPart, IdleApart
<1>9. FamilyInv'
  <2> SUFFICES ASSUME NEW q \in Created \ dead, q # p
               PROVE  children'[q] =
                        {c \in Created \ (dead \cup {p}) : parent'[c] = q}
      BY <1>1 DEF FamilyInv
  <2>1. q \in Proc /\ children[q] = {c \in Created \ dead : parent[c] = q}
      BY <1>4 DEF IInv, FamilyPart, FamilyInv
  <2>2. children'[q] = children[q] \ {p}
      BY <1>2, <2>1
  <2>3. \A c \in Proc : parent'[c] = q <=> parent[c] = q
      BY <1>1, <1>3, <1>4, <2>1 DEF IInv, FamilyPart, ListsApart
  <2> QED
      BY <1>4, <2>1, <2>2, <2>3
<1>10. NoLostWakeup'
  <2> SUFFICES ASSUME NEW q \in Proc \ dead, q # p, waiting'[q]
               PROVE  /\ exited_children'[q] = <<>>
                      /\ \E c \in Created \ (dead \cup {p}) : parent'[c] = q
      BY <1>1 DEF NoLostWakeup
  <2>1. /\ q # parent[p]
        /\ waiting[q]
        /\ exited_children'[q] = exited_children[q]
      BY <1>2
  <2>2. /\ exited_children[q] = <<>>
        /\ \E c \in Created \ dead : parent[c] = q
      BY <2>1 DEF IInv, FamilyPart, NoLostWakeup
  <2>3. PICK c \in Created \ dead : parent[c] = q
      BY <2>2
  <2>4. c # p /\ c \notin children[p]
      BY <1>3, <1>4, <2>1, <2>3 DEF IInv, FamilyPart, ListsApart
  <2>5. parent'[c] = q
      BY <1>1, <1>4, <2>3, <2>4
  <2> QED
      BY <2>1, <2>2, <2>3, <2>4, <2>5
<1> QED
    BY <1>5, <1>6, <1>7, <1>8, <1>9, <1>10 DEF FamilyPart

\* Wait takes the oldest record of a process that does not wait.
LEMMA CollectStep ==
    ASSUME IInv, Collect(curr_proc)
    PROVE  SchedOK' /\ FamilyPart'
<1>1. CASE Crash("fault")
    BY <1>1, FamilyUnchanged DEF IInv, SchedOK, Crash, Created
<1>2. CASE /\ RemoveHeadFromExitQueue(curr_proc)
           /\ UNCHANGED <<next_proc_id, parent, children, waiting, dead, queue,
                          waiting_queue, curr_proc, cpu>>
  <2>1. \A p \in Proc : exited_children[p] = <<>> => exited_children'[p] = <<>>
      BY <1>2 DEF RemoveHeadFromExitQueue, IInv, TypeOK
  <2>2. NoLostWakeup'
      BY <1>2, <2>1 DEF IInv, FamilyPart, NoLostWakeup, Created
  <2>3. (FreshApart /\ ListsApart /\ IdleApart /\ FamilyInv)'
      BY <1>2
      DEF IInv, FamilyPart, FreshApart, ListsApart, IdleApart, FamilyInv, Created
  <2>4. SchedOK'
      BY <1>2 DEF IInv, SchedOK, Created
  <2> QED
      BY <2>2, <2>3, <2>4 DEF FamilyPart
<1> QED
    BY <1>1, <1>2 DEF Collect


\* A switch that gives up the machine keeps the queues in order.
LEMMA YieldSched ==
    ASSUME TypeOK, SchedOK, NEW at, NEW q \in Seq(Proc), Dispatch(at, q),
           \A i \in 1 .. Len(q) : q[i] \in Created \ {idle},
           \A i \in 1 .. Len(waiting_queue') :
               waiting_queue'[i] \in Created \ {idle},
           UNCHANGED next_proc_id
    PROVE  SchedOK'
<1>1. idle \in Created /\ Created' = Created
    BY CreatedType DEF Created
<1>2. /\ curr_proc' \in Created
      /\ cpu' = curr_proc'
      /\ \A i \in 1 .. Len(queue') : queue'[i] \in Created \ {idle}
      /\ cpu' = idle => queue' = <<>>
    BY <1>1, DispatchSched
<1> QED
    BY <1>1, <1>2 DEF SchedOK

\* Every step keeps the inductive invariant.
LEMMA IInvStep ==
    ASSUME IInv, [Next]_vars
    PROVE  IInv'
<1> SUFFICES SchedOK' /\ FamilyPart'
    BY TypeStep DEF IInv
<1>0. /\ queue \in Seq(Proc) /\ waiting_queue \in Seq(Proc)
      /\ curr_proc \in Proc
      /\ \A i \in 1 .. Len(queue) : queue[i] \in Created \ {idle}
      /\ \A i \in 1 .. Len(waiting_queue) :
            waiting_queue[i] \in Created \ {idle}
      /\ TypeOK /\ SchedOK /\ FamilyPart
    BY DEF IInv, TypeOK, SchedOK
<1> DEFINE Quiet == UNCHANGED <<next_proc_id, parent, children,
                                exited_children, waiting, dead>>
<1>1. CASE ForkFunc
    BY <1>1, ForkStep
<1>2. ASSUME NEW s \in Status, Exit(s)
      PROVE  SchedOK' /\ FamilyPart'
    BY <1>2, ExitStep DEF Exit, UserCall
<1>3. CASE TrapIllegalHandler \/ TrapMathHandler \/ TrapMemoryHandler
  <2>1. ASSUME UNCHANGED vars
        PROVE  SchedOK' /\ FamilyPart'
      BY <1>0, <2>1, FamilyUnchanged DEF SchedOK, Created, vars
  <2> QED
      BY <1>3, <2>1, ExitStep
      DEF TrapIllegalHandler, TrapMathHandler, TrapMemoryHandler, UserCall
<1>4. CASE WaitFunc
  <2>1. CASE Collect(curr_proc)
      BY <2>1, CollectStep
  <2>2. CASE UNCHANGED vars
      BY <1>0, <2>2, FamilyUnchanged DEF SchedOK, Created, vars
  <2>3. CASE /\ MustBlock(curr_proc)
             /\ waiting' = [waiting EXCEPT ![curr_proc] = TRUE]
             /\ Dispatch("wait", queue)
             /\ UNCHANGED <<next_proc_id, parent, children, exited_children,
                            dead, waiting_queue>>
    <3>1. SchedOK'
        BY <1>0, <2>3, YieldSched
    <3>2. /\ curr_proc \in Created \ {idle}
          /\ waiting \in [Proc -> BOOLEAN]
          /\ Created' = Created
        BY <1>4, <2>3 DEF WaitFunc, UserCall, IInv, SchedOK, TypeOK, Created
    <3>3. FreshApart' /\ ListsApart' /\ IdleApart' /\ FamilyInv'
        BY <1>0, <2>3, <3>2, CreatedType
        DEF FamilyPart, FreshApart, ListsApart, IdleApart, FamilyInv
    <3>4. ASSUME curr_proc \notin dead
          PROVE  /\ exited_children[curr_proc] = <<>>
                 /\ \E c \in Created \ dead : parent[c] = curr_proc
        BY <1>0, <2>3, <3>2, <3>4 DEF MustBlock, FamilyPart, FamilyInv
    <3>5. NoLostWakeup'
        BY <1>0, <2>3, <3>2, <3>4 DEF FamilyPart, NoLostWakeup
    <3> QED
        BY <3>1, <3>3, <3>5 DEF FamilyPart
  <2> QED
      BY <1>4, <2>1, <2>2, <2>3 DEF WaitFunc
<1>5. ASSUME NEW n \in 1 .. MaxDelay, DelayFunc(n)
      PROVE  SchedOK' /\ FamilyPart'
  <2>1. CASE Crash("undefined")
      BY <1>0, <2>1, FamilyUnchanged DEF SchedOK, Crash, Created
  <2>2. ASSUME NEW k \in 0 .. Len(queue),
               /\ waiting_queue' = PushItemToWaitingQueue(curr_proc)
               /\ Dispatch("delay", SubSeq(queue, k + 1, Len(queue)))
               /\ Quiet
        PROVE  SchedOK' /\ FamilyPart'
    <3> DEFINE q == SubSeq(queue, k + 1, Len(queue))
    <3>1. /\ q \in Seq(Proc)
          /\ Len(q) = Len(queue) - k
          /\ \A i \in 1 .. Len(q) : q[i] = queue[i + k]
        BY <1>0
    <3>2. \A i \in 1 .. Len(q) : q[i] \in Created \ {idle}
        BY <1>0, <3>1
    <3>3. curr_proc \in Created \ {idle}
        BY <1>0, <1>5 DEF DelayFunc, UserCall, SchedOK
    <3>4. \A i \in 1 .. Len(waiting_queue') :
              waiting_queue'[i] \in Created \ {idle}
        BY <1>0, <2>2, <3>3, PushInCreated DEF PushItemToWaitingQueue
    <3> QED
        BY <1>0, <2>2, <3>1, <3>2, <3>4, YieldSched, FamilyUnchanged
  <2> QED
      BY <1>5, <2>1, <2>2 DEF DelayFunc
<1>6. CASE TtyWriteFunc \/ TrapTTYTransmitHandler
  <2>1. PICK at \in Points : Dispatch(at, queue)
      BY <1>6 DEF TtyWriteFunc, TrapTTYTransmitHandler, TtyTransmitFunc, Points
  <2>2. Quiet /\ UNCHANGED waiting_queue
      BY <1>6 DEF TtyWriteFunc, TrapTTYTransmitHandler, TtyTransmitFunc
  <2> QED
      BY <1>0, <2>1, <2>2, YieldSched, FamilyUnchanged
<1>7. CASE TtyReadFunc \/ ForkUnmapped
    BY <1>0, <1>7, FamilyUnchanged
    DEF TtyReadFunc, ForkUnmapped, SchedOK, Crash, Created
<1>8. ASSUME NEW i \in Nat \ {0}, ClockFrom(i)
      PROVE  SchedOK' /\ FamilyPart'
    BY <1>0, <1>8, ClockSched, FamilyUnchanged DEF ClockFrom
<1>9. CASE TrapClockHandler
    BY <1>8, <1>9 DEF TrapClockHandler
<1>10. CASE Resume
  <2>1. CASE ResumeReturn
      BY <1>0, <2>1, FamilyUnchanged DEF ResumeReturn, SchedOK, Created
  <2>2. CASE ResumeWait
      BY <2>2, CollectStep DEF ResumeWait
  <2>3. ASSUME NEW m \in Stops, Crash(m)
        PROVE  SchedOK' /\ FamilyPart'
      BY <1>0, <2>3, FamilyUnchanged DEF SchedOK, Crash, Created
  <2>4. ASSUME NEW i \in 1 .. Len(waiting_queue) + 1, ClockFrom(i)
        PROVE  SchedOK' /\ FamilyPart'
    <3>1. i \in Nat \ {0}
        BY <1>0
    <3> QED
        BY <1>8, <2>4, <3>1
  <2>5. CASE ResumeClock
      BY <2>3, <2>4, <2>5 DEF ResumeClock, Stops
  <2>6. CASE ResumeExit \/ ResumeForeign
      BY <2>3, <2>6 DEF ResumeExit, ResumeForeign, Stops
  <2> QED
      BY <1>10, <2>1, <2>2, <2>5, <2>6 DEF Resume
<1>11. CASE Stopped \/ UNCHANGED vars
    BY <1>0, <1>11, FamilyUnchanged DEF Stopped, SchedOK, Created, vars
<1> QED
    BY <1>1, <1>2, <1>3, <1>4, <1>5, <1>6, <1>7, <1>9, <1>10, <1>11 DEF Next

\* KernelStart leaves the inductive invariant true.
LEMMA IInvInit ==
    ASSUME Init
    PROVE  IInv
<1>1. TypeOK
  <2>1. Init => TypeOK
      BY InitType
  <2> QED
      BY <2>1
<1>2. Created = {0, 1} /\ Created \subseteq Proc
    BY ConstantsAssumption DEF Init, Created, Proc
<1>3. SchedOK
    BY <1>2 DEF Init, SchedOK, idle, init
<1>4. FamilyPart
  <2>1. FreshApart /\ ListsApart
      BY <1>2 DEF Init, create_pcb, FreshApart, ListsApart, NULL, Proc
  <2>2. IdleApart /\ FamilyInv /\ NoLostWakeup
      BY <1>2, ConstantsAssumption
      DEF Init, create_pcb, IdleApart, FamilyInv, NoLostWakeup, NULL, Proc,
          idle
  <2> QED
      BY <2>1, <2>2 DEF FamilyPart
<1> QED
    BY <1>1, <1>3, <1>4 DEF IInv

\* The inductive invariant holds in every reachable state.
LEMMA IInvCorrect == Spec => []IInv
  BY IInvInit, IInvStep, PTL DEF Spec

\* In every reachable state, the children list of a process that has not exited
\* holds exactly its children that have not exited, for any number of processes
\* and any calls.
THEOREM FamilyCorrect == Spec => []FamilyInv
<1>1. IInv => FamilyInv
    BY DEF IInv, FamilyPart
<1> QED
    BY <1>1, IInvCorrect, PTL

\* In every reachable state, a process blocked in Wait has no exit record left
\* to collect and a child whose exit will wake it.
THEOREM WakeupCorrect == Spec => []NoLostWakeup
<1>1. IInv => NoLostWakeup
    BY DEF IInv, FamilyPart
<1> QED
    BY <1>1, IInvCorrect, PTL

\* In every reachable state, the idle process runs only when no process is
\* ready, and is neither queued nor delayed.
THEOREM IdleCorrect == Spec => []IdleInv
<1>1. IInv => IdleInv
    BY DEF IInv, SchedOK, IdleInv, OnQueue
<1> QED
    BY <1>1, IInvCorrect, PTL


\* When curr_proc exits for the first time, its children list is complete, so
\* the loop over it reaches every process that names it as parent.
LEMMA ExitOrphans ==
    ASSUME IInv, NEW status \in Int, ExitFunc(status), curr_proc \notin dead
    PROVE  \A c \in Created' \ dead' : parent'[c] # curr_proc
<1>1. /\ parent' = [c \in Proc |-> IF c \in children[curr_proc]
                                   THEN NULL ELSE parent[c]]
      /\ dead' = dead \cup {curr_proc}
      /\ Created' = Created
    BY ExitEffect DEF IInv
<1>2. curr_proc \in Created /\ curr_proc \in Proc /\ Created \subseteq Proc
    BY CreatedType DEF IInv, SchedOK, TypeOK
<1>3. children[curr_proc] = {c \in Created \ dead : parent[c] = curr_proc}
    BY <1>2 DEF IInv, FamilyPart, FamilyInv
<1>4. NULL # curr_proc
    BY <1>2 DEF NULL, Proc
<1> QED
    BY <1>1, <1>2, <1>3, <1>4

\* No exit leaves a surviving process with the dead one as its parent.
THEOREM OrphansCorrect == Spec => ExitOrphansChildren
<1> DEFINE A == \A p \in dead' \ dead :
                    \A c \in Created' \ dead' : parent'[c] # p
<1>1. ASSUME IInv, [Next]_vars
      PROVE  [A]_vars
  <2>1. ASSUME NEW status \in Int, ExitFunc(status)
        PROVE  A
    <3>1. dead' = dead \cup {curr_proc}
        BY <1>1, <2>1, ExitEffect DEF IInv
    <3> QED
        BY <1>1, <2>1, <3>1, ExitOrphans
  <2>2. ASSUME dead' = dead
        PROVE  A
      BY <2>2
  <2>3. ASSUME NEW s \in Status, Exit(s)
        PROVE  A
      BY <2>1, <2>3 DEF Exit
  <2>4. CASE TrapIllegalHandler \/ TrapMathHandler \/ TrapMemoryHandler
      BY <2>1, <2>2, <2>4
      DEF TrapIllegalHandler, TrapMathHandler, TrapMemoryHandler, vars
  <2>5. CASE \/ ForkFunc \/ ForkUnmapped \/ WaitFunc \/ TtyWriteFunc
             \/ TrapTTYTransmitHandler \/ TtyReadFunc
             \/ TrapClockHandler \/ Resume \/ Stopped
             \/ \E n \in 1 .. MaxDelay : DelayFunc(n)
    <3>1. dead' = dead
        BY <2>5
        DEF ForkFunc, ForkUnmapped, WaitFunc, Collect, TtyWriteFunc,
            TtyTransmitFunc,
            TrapTTYTransmitHandler,
            TtyReadFunc, TrapClockHandler, ClockFrom, Resume, ResumeReturn,
            ResumeWait, ResumeClock, ResumeExit, ResumeForeign, Stopped,
            DelayFunc, Crash, vars
    <3> QED
        BY <2>2, <3>1
  <2>6. CASE UNCHANGED vars
      BY <2>6
  <2> QED
      BY <1>1, <2>3, <2>4, <2>5, <2>6 DEF Next
<1> QED
    BY <1>1, IInvCorrect, PTL DEF Spec, ExitOrphansChildren

=============================================================================
