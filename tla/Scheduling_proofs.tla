-------------------------- MODULE Scheduling_proofs --------------------------
(***************************************************************************)
(* More proofs about Processes.tla: where the kernel finds a process that  *)
(* it has suspended, that it has one place for each process of programs    *)
(* that Fork, Exit and Wait, and that for such programs it implements      *)
(* Family.tla.                                                             *)
(***************************************************************************)
EXTENDS Processes_proofs, Counting

-----------------------------------------------------------------------------
(* Membership in a queue.                                                   *)

\* PushProcToQueue loses nobody and adds the process it is given.
LEMMA OnQueuePush ==
    ASSUME NEW S, NEW q \in Seq(S), NEW p \in S, NEW r
    PROVE  OnQueue(r, Append(q, p)) <=> OnQueue(r, q) \/ r = p
<1>1. /\ Len(Append(q, p)) = Len(q) + 1
      /\ \A i \in 1 .. Len(q) : Append(q, p)[i] = q[i]
      /\ Append(q, p)[Len(q) + 1] = p
      /\ Len(q) \in Nat
    OBVIOUS
<1>2. 1 .. Len(q) + 1 = (1 .. Len(q)) \cup {Len(q) + 1}
    BY <1>1
<1> QED
    BY <1>1, <1>2 DEF OnQueue

\* Taking the head off a queue loses nobody but the process at the head.
LEMMA OnQueueTail ==
    ASSUME NEW S, NEW q \in Seq(S), q # <<>>, NEW r, OnQueue(r, q)
    PROVE  r = Head(q) \/ OnQueue(r, Tail(q))
<1>1. /\ Len(Tail(q)) = Len(q) - 1
      /\ \A i \in 1 .. Len(Tail(q)) : Tail(q)[i] = q[i + 1]
      /\ Head(q) = q[1]
      /\ Len(q) \in Nat
    OBVIOUS
<1>2. PICK i \in 1 .. Len(q) : q[i] = r
    BY DEF OnQueue
<1>3. CASE i = 1
    BY <1>1, <1>2, <1>3
<1>4. CASE i # 1
  <2>1. i - 1 \in 1 .. Len(Tail(q)) /\ Tail(q)[i - 1] = q[i]
      BY <1>1, <1>2, <1>4
  <2> QED
      BY <1>2, <2>1 DEF OnQueue
<1> QED
    BY <1>3, <1>4

\* Whoever is on the tail of a queue is on the queue.
LEMMA OnTail ==
    ASSUME NEW S, NEW q \in Seq(S), q # <<>>, NEW r, OnQueue(r, Tail(q))
    PROVE  OnQueue(r, q)
<1>1. /\ Len(Tail(q)) = Len(q) - 1
      /\ \A i \in 1 .. Len(Tail(q)) : Tail(q)[i] = q[i + 1]
      /\ Len(q) \in Nat
    OBVIOUS
<1>2. PICK i \in 1 .. Len(Tail(q)) : Tail(q)[i] = r
    BY DEF OnQueue
<1>3. i + 1 \in 1 .. Len(q)
    BY <1>1, <1>2
<1> QED
    BY <1>1, <1>2, <1>3 DEF OnQueue

\* RemoveItemFromWaitingQueue takes one item out.
LEMMA OnQueueRemove ==
    ASSUME NEW S, NEW s \in Seq(S), NEW j \in 1 .. Len(s), NEW r,
           OnQueue(r, s), r # s[j]
    PROVE  OnQueue(r, RemoveAt(s, j))
<1> DEFINE a == SubSeq(s, 1, j - 1)
           b == SubSeq(s, j + 1, Len(s))
<1>0. Len(s) \in Nat /\ j \in Nat /\ j >= 1 /\ j <= Len(s)
    OBVIOUS
<1>1. /\ a \in Seq(S) /\ Len(a) = j - 1
      /\ \A k \in 1 .. Len(a) : a[k] = s[k]
    OBVIOUS
<1>2. /\ b \in Seq(S) /\ Len(b) = Len(s) - j
      /\ \A k \in 1 .. Len(b) : b[k] = s[k + j]
    OBVIOUS
<1>3. RemoveAt(s, j) = a \o b
    BY DEF RemoveAt
<1> HIDE DEF a, b
<1>4. /\ Len(a \o b) = Len(s) - 1
      /\ \A k \in 1 .. Len(a \o b) :
            (a \o b)[k] = IF k <= Len(a) THEN a[k] ELSE b[k - Len(a)]
    BY <1>1, <1>2
<1>5. PICK i \in 1 .. Len(s) : s[i] = r
    BY DEF OnQueue
<1>6. CASE i < j
  <2>1. i \in 1 .. Len(a) /\ i \in 1 .. Len(a \o b)
      BY <1>0, <1>1, <1>4, <1>5, <1>6
  <2>2. (a \o b)[i] = r
      BY <1>1, <1>4, <1>5, <2>1
  <2> QED
      BY <1>3, <2>1, <2>2 DEF OnQueue
<1>7. CASE i > j
  <2>1. /\ i - j \in 1 .. Len(b) /\ i - 1 \in 1 .. Len(a \o b)
        /\ ~(i - 1 <= Len(a)) /\ (i - 1) - Len(a) = i - j
        /\ (i - j) + j = i
      BY <1>0, <1>1, <1>2, <1>4, <1>5, <1>7
  <2>2. (a \o b)[i - 1] = b[i - j] /\ b[i - j] = s[i]
      BY <1>2, <1>4, <2>1
  <2> QED
      BY <1>3, <1>5, <2>1, <2>2 DEF OnQueue
<1>8. i # j
    BY <1>5
<1> QED
    BY <1>0, <1>5, <1>6, <1>7, <1>8

-----------------------------------------------------------------------------
(* SuspendedAccounted.                                                      *)

\* A switch to the next ready process loses no suspended process, if whoever
\* was to be found before the switch is to be found in what it starts from.
LEMMA DispatchAccounted ==
    ASSUME TypeOK, SuspendedAccounted, Running,
           NEW at \in Points \ {"fork"}, NEW q \in Seq(Proc), Dispatch(at, q),
           at = "delay" => OnQueue(curr_proc, waiting_queue'),
           at = "wait" => waiting'[curr_proc],
           \A p \in Proc \ {curr_proc} :
               /\ OnQueue(p, queue) => OnQueue(p, q)
               /\ OnQueue(p, waiting_queue) => OnQueue(p, waiting_queue')
               /\ waiting[p] => waiting'[p] \/ OnQueue(p, q)
    PROVE  SuspendedAccounted'
<1> SUFFICES ASSUME NEW p \in Proc, curr_proc' # p
             PROVE  /\ ctx'[p].at = "fork" => OnQueue(p, queue')
                    /\ ctx'[p].at = "delay" =>
                           OnQueue(p, waiting_queue') \/ OnQueue(p, queue')
                    /\ ctx'[p].at = "wait" => waiting'[p] \/ OnQueue(p, queue')
    BY DEF SuspendedAccounted
<1>1. OnQueue(p, q) => OnQueue(p, queue')
  <2>1. CASE q = <<>>
      BY <2>1 DEF OnQueue
  <2>2. CASE q # <<>>
    <3>1. curr_proc' = Head(q) /\ queue' = Tail(q)
        BY <2>2 DEF Dispatch, SwitchExist, FindReadyPcb,
                    RemoveItemFromReadyQueue
    <3> QED
        BY <2>2, <3>1, OnQueueTail
  <2> QED
      BY <2>1, <2>2
<1>2. ctx' = [ctx EXCEPT ![curr_proc] = [at |-> at, stack |-> cpu]]
    BY DEF Dispatch, SwitchExist
<1>3. CASE p = curr_proc
  <2>1. ctx'[p].at = at
      BY <1>2, <1>3 DEF TypeOK
  <2> QED
      BY <1>3, <2>1
<1>4. CASE p # curr_proc
  <2>1. ctx'[p] = ctx[p]
      BY <1>2, <1>4 DEF TypeOK
  <2>2. /\ ctx[p].at = "fork" => OnQueue(p, queue)
        /\ ctx[p].at = "delay" => OnQueue(p, waiting_queue) \/ OnQueue(p, queue)
        /\ ctx[p].at = "wait" => waiting[p] \/ OnQueue(p, queue)
      BY <1>4 DEF SuspendedAccounted
  <2> QED
      BY <1>1, <1>4, <2>1, <2>2
<1> QED
    BY <1>3, <1>4

\* A return to user mode loses nobody.
LEMMA ReturnAccounted ==
    ASSUME TypeOK, SuspendedAccounted, Running,
           ctx' = [ctx EXCEPT ![cpu] = Stale],
           UNCHANGED <<waiting, queue, waiting_queue, curr_proc>>
    PROVE  SuspendedAccounted'
<1> SUFFICES ASSUME NEW p \in Proc, curr_proc # p
             PROVE  /\ ctx'[p].at = "fork" => OnQueue(p, queue)
                    /\ ctx'[p].at = "delay" =>
                           OnQueue(p, waiting_queue) \/ OnQueue(p, queue)
                    /\ ctx'[p].at = "wait" => waiting[p] \/ OnQueue(p, queue)
    BY DEF SuspendedAccounted
<1>1. ctx'[p] \in {ctx[p], Stale}
    BY DEF TypeOK
<1> QED
    BY <1>1 DEF SuspendedAccounted, Stale

\* A stopped machine has no obligation to anybody.
LEMMA StopAccounted ==
    ASSUME NEW m \in Stops, Crash(m)
    PROVE  SuspendedAccounted'
  BY DEF Crash, SuspendedAccounted, Running

\* The clock handler makes ready whom it takes off the waiting queue, and
\* rotates curr_proc to the tail of the ready queue.
LEMMA ClockAccounted ==
    ASSUME TypeOK, SuspendedAccounted, Running, NEW i \in Nat \ {0},
           ClockFrom(i)
    PROVE  SuspendedAccounted'
<1> USE DEF PushProcToQueue
<1>0. /\ queue \in Seq(Proc) /\ waiting_queue \in Seq(Proc)
      /\ curr_proc \in Proc /\ UNCHANGED waiting
    BY DEF TypeOK, ClockFrom
<1>1. CASE UNCHANGED waiting_queue /\ Tick_
  <2>1. CASE queue # <<>> /\ SetNextProc
    <3> DEFINE q == Append(queue, curr_proc)
    <3>1. /\ queue' = Tail(q) /\ curr_proc' = Head(q)
          /\ q \in Seq(Proc) /\ q # <<>>
        BY <1>0, <2>1 DEF SetNextProc
    <3> SUFFICES ASSUME NEW p \in Proc, curr_proc' # p
                 PROVE  /\ ctx'[p].at = "fork" => OnQueue(p, queue')
                        /\ ctx'[p].at = "delay" =>
                             OnQueue(p, waiting_queue) \/ OnQueue(p, queue')
                        /\ ctx'[p].at = "wait" =>
                             waiting[p] \/ OnQueue(p, queue')
        BY <1>0, <1>1 DEF SuspendedAccounted
    <3>2. ctx'[p] \in {ctx[p], Stale}
        BY <1>1 DEF Tick_, TypeOK
    <3>3. OnQueue(p, queue) \/ p = curr_proc => OnQueue(p, q)
        BY <1>0, OnQueuePush
    <3> HIDE DEF q
    <3>4. OnQueue(p, q) => OnQueue(p, queue')
        BY <3>1, OnQueueTail
    <3>5. curr_proc # p =>
            /\ ctx[p].at = "fork" => OnQueue(p, queue)
            /\ ctx[p].at = "delay" =>
                   OnQueue(p, waiting_queue) \/ OnQueue(p, queue)
            /\ ctx[p].at = "wait" => waiting[p] \/ OnQueue(p, queue)
        BY DEF SuspendedAccounted
    <3> QED
        BY <3>2, <3>3, <3>4, <3>5 DEF Stale
  <2>2. CASE UNCHANGED <<queue, curr_proc>>
      BY <1>0, <1>1, <2>2, ReturnAccounted DEF Tick_
  <2> QED
      BY <1>1, <2>1, <2>2 DEF Tick_
<1>2. ASSUME NEW j \in Expiring(i),
             /\ waiting_queue' = RemoveItemFromWaitingQueue(j)
             /\ queue' = PushProcToQueue(queue, waiting_queue[j])
             /\ SwitchExist("clock", waiting_queue[j])
      PROVE  SuspendedAccounted'
  <2>1. j \in 1 .. Len(waiting_queue)
      BY DEF Expiring, TypeOK
  <2>2. waiting_queue[j] \in Proc
      BY <1>0, <2>1
  <2> SUFFICES ASSUME NEW p \in Proc, curr_proc' # p
               PROVE  /\ ctx'[p].at = "fork" => OnQueue(p, queue')
                      /\ ctx'[p].at = "delay" =>
                            OnQueue(p, waiting_queue') \/ OnQueue(p, queue')
                      /\ ctx'[p].at = "wait" =>
                            waiting[p] \/ OnQueue(p, queue')
      BY <1>0 DEF SuspendedAccounted
  <2>3. p # waiting_queue[j]
      BY <1>2 DEF SwitchExist
  <2>4. /\ OnQueue(p, queue) => OnQueue(p, queue')
        /\ OnQueue(p, waiting_queue) => OnQueue(p, waiting_queue')
      BY <1>0, <1>2, <2>1, <2>2, <2>3, OnQueuePush, OnQueueRemove
      DEF RemoveItemFromWaitingQueue
  <2>5. \/ ctx'[p].at = "clock"
        \/ p # curr_proc /\ ctx'[p] = ctx[p]
      BY <1>2 DEF SwitchExist, TypeOK
  <2>6. curr_proc # p =>
          /\ ctx[p].at = "fork" => OnQueue(p, queue)
          /\ ctx[p].at = "delay" =>
                 OnQueue(p, waiting_queue) \/ OnQueue(p, queue)
          /\ ctx[p].at = "wait" => waiting[p] \/ OnQueue(p, queue)
      BY DEF SuspendedAccounted
  <2> QED
      BY <2>4, <2>5, <2>6
<1> QED
    BY <1>1, <1>2 DEF ClockFrom

\* ExitFunc leaves nobody behind: a parent it stops waiting it makes ready.
LEMMA ExitAccounted ==
    ASSUME TypeOK, SuspendedAccounted, Running, NEW status \in Int,
           ExitFunc(status)
    PROVE  SuspendedAccounted'
<1> USE DEF PushProcToQueue, Points
<1>0. queue \in Seq(Proc) /\ waiting \in [Proc -> BOOLEAN]
    BY DEF TypeOK
<1>1. UNCHANGED waiting_queue
    BY DEF ExitFunc
<1>2. CASE UNCHANGED waiting /\ Dispatch("exit", queue)
    BY <1>0, <1>1, <1>2, DispatchAccounted
<1>3. ASSUME NEW par \in Proc, waiting' = [waiting EXCEPT ![par] = FALSE],
             Dispatch("exit", Append(queue, par))
      PROVE  SuspendedAccounted'
  <2> DEFINE q == Append(queue, par)
  <2>1. q \in Seq(Proc)
      BY <1>0
  <2>2. \A p \in Proc :
            /\ OnQueue(p, queue) => OnQueue(p, q)
            /\ waiting[p] => waiting'[p] \/ OnQueue(p, q)
      BY <1>0, <1>3, OnQueuePush
  <2> QED
      BY <1>1, <1>3, <2>1, <2>2, DispatchAccounted
<1>4. \/ UNCHANGED waiting /\ Dispatch("exit", queue)
      \/ \E par \in Proc : /\ waiting' = [waiting EXCEPT ![par] = FALSE]
                           /\ Dispatch("exit", Append(queue, par))
    BY DEF ExitFunc, SwitchExit, WakeParent, TypeOK
<1> QED
    BY <1>2, <1>3, <1>4

LEMMA CollectAccounted ==
    ASSUME TypeOK, SuspendedAccounted, Running, Collect(curr_proc)
    PROVE  SuspendedAccounted'
  BY StopAccounted, ReturnAccounted DEF Collect, Stops

\* Every step keeps track of the processes that are suspended.
LEMMA AccountedStep ==
    ASSUME TypeOK, SuspendedAccounted, [Next]_vars
    PROVE  SuspendedAccounted'
<1>0. /\ queue \in Seq(Proc) /\ waiting_queue \in Seq(Proc)
      /\ curr_proc \in Proc
    BY DEF TypeOK
<1>1. CASE Running
  <2>1. CASE ForkFunc
    <3>0. /\ ctx' = [ctx EXCEPT
                        ![curr_proc] = [at |-> "fork", stack |-> cpu],
                        ![next_proc_id] = [at |-> "fork", stack |-> next_proc_id]]
          /\ curr_proc' = next_proc_id
          /\ queue' = Append(queue, curr_proc)
          /\ UNCHANGED <<waiting, waiting_queue>>
        BY <2>1 DEF ForkFunc, SwitchFork, PushProcToQueue
    <3> SUFFICES ASSUME NEW p \in Proc, curr_proc' # p
                 PROVE  /\ ctx'[p].at = "fork" => OnQueue(p, queue')
                        /\ ctx'[p].at = "delay" =>
                             OnQueue(p, waiting_queue) \/ OnQueue(p, queue')
                        /\ ctx'[p].at = "wait" =>
                             waiting[p] \/ OnQueue(p, queue')
        BY <3>0 DEF SuspendedAccounted
    <3>1. p # curr_proc => ctx'[p] = ctx[p]
        BY <3>0 DEF TypeOK
    <3>2. OnQueue(p, queue) \/ p = curr_proc => OnQueue(p, queue')
        BY <1>0, <3>0, OnQueuePush
    <3>3. curr_proc # p =>
            /\ ctx[p].at = "fork" => OnQueue(p, queue)
            /\ ctx[p].at = "delay" =>
                   OnQueue(p, waiting_queue) \/ OnQueue(p, queue)
            /\ ctx[p].at = "wait" => waiting[p] \/ OnQueue(p, queue)
        BY <1>1 DEF SuspendedAccounted
    <3> QED
        BY <3>1, <3>2, <3>3
  <2>2. ASSUME NEW s \in Status, Exit(s)
        PROVE  SuspendedAccounted'
      BY <1>1, <2>2, ExitAccounted DEF Exit
  <2>3. ASSUME UNCHANGED vars
        PROVE  SuspendedAccounted'
      BY <2>3 DEF SuspendedAccounted, Running, vars
  <2>4. CASE TrapIllegalHandler \/ TrapMathHandler \/ TrapMemoryHandler
      BY <1>1, <2>3, <2>4, ExitAccounted
      DEF TrapIllegalHandler, TrapMathHandler, TrapMemoryHandler
  <2>5. CASE WaitFunc
    <3>1. CASE Collect(curr_proc)
        BY <1>1, <3>1, CollectAccounted
    <3>2. CASE /\ waiting' = [waiting EXCEPT ![curr_proc] = TRUE]
               /\ Dispatch("wait", queue)
               /\ UNCHANGED waiting_queue
      <4>1. waiting'[curr_proc] /\ \A p \in Proc : waiting[p] => waiting'[p]
          BY <3>2 DEF TypeOK
      <4> QED
          BY <1>0, <1>1, <3>2, <4>1, DispatchAccounted DEF Points
    <3> QED
        BY <2>3, <2>5, <3>1, <3>2 DEF WaitFunc
  <2>6. ASSUME NEW n \in 1 .. MaxDelay, DelayFunc(n)
        PROVE  SuspendedAccounted'
    <3>1. ASSUME NEW k \in 0 .. Len(queue),
                 /\ RemoveProcFromReadyQueue(queue, curr_proc, k)
                 /\ waiting_queue' = PushItemToWaitingQueue(curr_proc)
                 /\ Dispatch("delay", SubSeq(queue, k + 1, Len(queue)))
                 /\ UNCHANGED waiting
          PROVE  SuspendedAccounted'
      <4> DEFINE q == SubSeq(queue, k + 1, Len(queue))
      <4>1. /\ q \in Seq(Proc)
            /\ Len(q) = Len(queue) - k
            /\ \A m \in 1 .. Len(q) : q[m] = queue[m + k]
          BY <1>0
      <4>2. ASSUME NEW p \in Proc \ {curr_proc}, OnQueue(p, queue)
            PROVE  OnQueue(p, q)
        <5>1. PICK m \in 1 .. Len(queue) : queue[m] = p
            BY <4>2 DEF OnQueue
        <5>2. m > k
            BY <3>1, <4>2, <5>1 DEF RemoveProcFromReadyQueue
        <5>3. m - k \in 1 .. Len(q) /\ (m - k) + k = m
            BY <1>0, <4>1, <5>1, <5>2
        <5>4. q[m - k] = p
            BY <4>1, <5>1, <5>3
        <5> QED
            BY <5>3, <5>4 DEF OnQueue
      <4>3. \A p \in Proc : OnQueue(p, waiting_queue) \/ p = curr_proc
                               => OnQueue(p, waiting_queue')
          BY <1>0, <3>1, OnQueuePush DEF PushItemToWaitingQueue
      <4>4. Dispatch("delay", q) /\ "delay" \in Points \ {"fork"}
          BY <3>1 DEF Points
      <4>5. \A p \in Proc \ {curr_proc} : waiting[p] => waiting'[p] \/ OnQueue(p, q)
          BY <3>1
      <4> HIDE DEF q
      <4> QED
          BY <1>0, <1>1, <4>1, <4>2, <4>3, <4>4, <4>5, DispatchAccounted
    <3> QED
        BY <2>6, <3>1, StopAccounted DEF DelayFunc, Stops
  <2>7. CASE TtyWriteFunc \/ TrapTTYTransmitHandler
    <3>1. \/ Dispatch("ttywrite", queue)
          \/ Dispatch("ttytransmit", queue)
        BY <2>7 DEF TtyWriteFunc, TrapTTYTransmitHandler, TtyTransmitFunc
    <3>2. UNCHANGED <<waiting, waiting_queue>>
        BY <2>7 DEF TtyWriteFunc, TrapTTYTransmitHandler, TtyTransmitFunc
    <3>3. CASE Dispatch("ttywrite", queue)
        BY <1>0, <1>1, <3>2, <3>3, DispatchAccounted DEF Points
    <3>4. CASE Dispatch("ttytransmit", queue)
        BY <1>0, <1>1, <3>2, <3>4, DispatchAccounted DEF Points
    <3> QED
        BY <3>1, <3>3, <3>4
  <2>8. CASE TtyReadFunc \/ ForkUnmapped
      BY <2>8, StopAccounted DEF TtyReadFunc, ForkUnmapped, Stops
  <2>9. CASE TrapClockHandler
      BY <1>1, <2>9, ClockAccounted DEF TrapClockHandler
  <2>10. CASE Resume
    <3>1. CASE ResumeReturn
        BY <1>1, <3>1, ReturnAccounted DEF ResumeReturn
    <3>2. CASE ResumeWait
        BY <1>1, <3>2, CollectAccounted DEF ResumeWait
    <3>3. ASSUME NEW i \in 1 .. Len(waiting_queue) + 1, ClockFrom(i)
          PROVE  SuspendedAccounted'
      <4>1. i \in Nat \ {0}
          BY <1>0
      <4> QED
          BY <1>1, <3>3, <4>1, ClockAccounted
    <3>4. CASE ResumeClock \/ ResumeExit \/ ResumeForeign
        BY <3>3, <3>4, StopAccounted
        DEF ResumeClock, ResumeExit, ResumeForeign, Stops
    <3> QED
        BY <2>10, <3>1, <3>2, <3>4 DEF Resume
  <2>11. CASE Stopped \/ UNCHANGED vars
      BY <2>3, <2>11 DEF Stopped
  <2> QED
      BY <2>1, <2>2, <2>4, <2>5, <2>6, <2>7, <2>8, <2>9, <2>10, <2>11 DEF Next
<1>2. CASE ~Running
  <2>1. UNCHANGED vars
      BY <1>2
      DEF Running, Stops, Next, ForkFunc, ForkUnmapped, Exit,
          TrapIllegalHandler, TrapMathHandler, TrapMemoryHandler, WaitFunc,
          DelayFunc, TtyWriteFunc, TrapTTYTransmitHandler, TtyReadFunc,
          UserCall, TrapClockHandler, Resume, ResumeReturn, ResumeWait,
          ResumeClock, ResumeExit, ResumeForeign, Resumes, Stopped
  <2> QED
      BY <2>1 DEF SuspendedAccounted, Running, vars
<1> QED
    BY <1>1, <1>2

LEMMA AccountedInit ==
    ASSUME Init
    PROVE  SuspendedAccounted
  BY DEF Init, SwitchNewProc, SuspendedAccounted, Stale

\* In every reachable state of any programs, a process that Fork, Delay or Wait
\* has suspended is on the ready queue, on the waiting queue, or flagged as
\* waiting: the kernel forgets none of them.
THEOREM SuspendedCorrect == Spec => []SuspendedAccounted
  BY AccountedInit, AccountedStep, TypeCorrect, PTL DEF Spec

-----------------------------------------------------------------------------
(* Programs that neither Delay nor write to a terminal.  For them each live *)
(* process is in one place, which Processes.tla states as LiveInOnePlace.   *)
(* The inductive form says who may be where.                                *)

\* Nobody is delayed and nothing is being transmitted.
NoDevices == waiting_queue = <<>> /\ transmits = 0

\* The ready queue q holds processes of L that do not wait, each once.
ReadyOK(q, w, L) ==
    /\ \A i, j \in 1 .. Len(q) : q[i] = q[j] => i = j
    /\ \A i \in 1 .. Len(q) : q[i] \in L /\ ~w[q[i]]

OnePlace ==
    /\ ReadyOK(queue, waiting, Live)
    /\ ~OnQueue(curr_proc, queue)
    /\ curr_proc \in Live \cup {idle}
    /\ ~waiting[curr_proc]
    /\ \A p \in Live : p = curr_proc \/ OnQueue(p, queue) \/ waiting[p]
    /\ \A p \in Proc \ Live : ~waiting[p]

PInv == IInv /\ NoDevices /\ OnePlace

\* Pushing a process that is not on the queue.
LEMMA ReadyPush ==
    ASSUME NEW q \in Seq(Proc), NEW w, NEW L, ReadyOK(q, w, L),
           NEW p \in Proc, p \in L, ~w[p], ~OnQueue(p, q)
    PROVE  ReadyOK(Append(q, p), w, L)
<1>1. /\ Len(Append(q, p)) = Len(q) + 1
      /\ \A i \in 1 .. Len(q) : Append(q, p)[i] = q[i]
      /\ Append(q, p)[Len(q) + 1] = p
      /\ Len(q) \in Nat
    OBVIOUS
<1>2. 1 .. Len(q) + 1 = (1 .. Len(q)) \cup {Len(q) + 1}
    BY <1>1
<1> QED
    BY <1>1, <1>2 DEF ReadyOK, OnQueue

\* The tail of a queue of distinct processes, without its head.
LEMMA ReadyTail ==
    ASSUME NEW q \in Seq(Proc), q # <<>>, NEW w, NEW L, ReadyOK(q, w, L)
    PROVE  /\ ReadyOK(Tail(q), w, L)
           /\ ~OnQueue(Head(q), Tail(q))
           /\ Head(q) \in L /\ ~w[Head(q)]
<1>1. /\ Len(Tail(q)) = Len(q) - 1
      /\ \A i \in 1 .. Len(Tail(q)) : Tail(q)[i] = q[i + 1]
      /\ Head(q) = q[1]
      /\ Len(q) \in Nat
    OBVIOUS
<1>2. \A i \in 1 .. Len(Tail(q)) : i + 1 \in 1 .. Len(q) /\ i + 1 # 1
    BY <1>1
<1>3. 1 \in 1 .. Len(q)
    OBVIOUS
<1> QED
    BY <1>1, <1>2, <1>3 DEF ReadyOK, OnQueue

\* A switch to the next ready process, everybody else being ready or waiting.
LEMMA DispatchPlaced ==
    ASSUME NEW at, NEW q \in Seq(Proc), Dispatch(at, q),
           idle \in Proc \ Live',
           ReadyOK(q, waiting', Live'),
           \A p \in Live' : OnQueue(p, q) \/ waiting'[p],
           \A p \in Proc \ Live' : ~waiting'[p]
    PROVE  OnePlace'
<1>1. CASE q = <<>>
  <2>1. curr_proc' = idle /\ queue' = q
      BY <1>1 DEF Dispatch, SwitchExist, FindReadyPcb
  <2> QED
      BY <1>1, <2>1 DEF OnePlace, ReadyOK, OnQueue
<1>2. CASE q # <<>>
  <2>1. curr_proc' = Head(q) /\ queue' = Tail(q)
      BY <1>2 DEF Dispatch, SwitchExist, FindReadyPcb, RemoveItemFromReadyQueue
  <2>2. /\ ReadyOK(Tail(q), waiting', Live')
        /\ ~OnQueue(Head(q), Tail(q))
        /\ Head(q) \in Live' /\ ~waiting'[Head(q)]
      BY <1>2, ReadyTail
  <2>3. \A p \in Live' : p = Head(q) \/ OnQueue(p, Tail(q)) \/ waiting'[p]
      BY <1>2, OnQueueTail
  <2> QED
      BY <2>1, <2>2, <2>3 DEF OnePlace
<1> QED
    BY <1>1, <1>2

\* Steps that leave families, queue and current process alone.
LEMMA PlacedUnchanged ==
    ASSUME OnePlace,
           UNCHANGED <<next_proc_id, dead, waiting, queue, curr_proc>>
    PROVE  OnePlace'
  BY DEF OnePlace, ReadyOK, Live, Created

LEMMA ForkPlaced ==
    ASSUME PInv, ForkFunc
    PROVE  OnePlace'
<1> DEFINE child == next_proc_id
<1>1. /\ child \in Proc \ Created
      /\ Created' = Created \cup {child}
      /\ child # idle
  <2>1. child \in 2 .. MaxPid /\ next_proc_id' = child + 1 /\ MaxPid \in Nat
      BY ConstantsAssumption DEF PInv, IInv, TypeOK, ForkFunc
  <2> QED
      BY <2>1 DEF Created, Proc, idle
<1>2. /\ UNCHANGED <<waiting, dead>>
      /\ curr_proc' = child
      /\ queue' = Append(queue, curr_proc)
    BY DEF ForkFunc, SwitchFork, PushProcToQueue
<1>3. /\ curr_proc \in Live /\ curr_proc \in Proc
      /\ queue \in Seq(Proc)
      /\ child \notin dead /\ child \notin Live /\ ~waiting[child]
    BY <1>1 DEF PInv, IInv, SchedOK, TypeOK, ForkFunc, UserCall, OnePlace,
                FamilyPart, FreshApart, Live
<1> HIDE DEF child
<1>4. Live' = Live \cup {child}
    BY <1>1, <1>2, <1>3 DEF Live
<1>5. ReadyOK(queue', waiting', Live)
    BY <1>2, <1>3, ReadyPush DEF PInv, OnePlace
<1>6. \A p : OnQueue(p, queue') <=> OnQueue(p, queue) \/ p = curr_proc
    BY <1>2, <1>3, OnQueuePush
<1>7. ~OnQueue(child, queue')
  <2>1. ~OnQueue(child, queue)
      BY <1>3 DEF PInv, OnePlace, ReadyOK, OnQueue
  <2> QED
      BY <1>3, <1>6, <2>1
<1>8. ReadyOK(queue', waiting', Live')
    BY <1>4, <1>5 DEF ReadyOK
<1>9. \A p \in Live' : p = curr_proc' \/ OnQueue(p, queue') \/ waiting'[p]
    BY <1>2, <1>4, <1>6 DEF PInv, OnePlace
<1>10. \A p \in Proc \ Live' : ~waiting'[p]
    BY <1>2, <1>4 DEF PInv, OnePlace
<1> QED
    BY <1>2, <1>3, <1>4, <1>7, <1>8, <1>9, <1>10 DEF OnePlace

LEMMA ExitPlaced ==
    ASSUME PInv, NEW status \in Int, ExitFunc(status), cpu # idle
    PROVE  OnePlace'
<1>1. /\ queue \in Seq(Proc) /\ waiting \in [Proc -> BOOLEAN]
      /\ curr_proc \in Live /\ curr_proc \in Proc
      /\ idle \in Proc \ Live
    BY CreatedType DEF PInv, IInv, TypeOK, SchedOK, OnePlace, Live
<1>2. Live' = Live \ {curr_proc}
    BY ExitEffect DEF PInv, IInv, Live
<1>3. ReadyOK(queue, waiting, Live')
    BY <1>1, <1>2 DEF PInv, OnePlace, ReadyOK, OnQueue
<1>4. CASE UNCHANGED waiting /\ Dispatch("exit", queue)
  <2>1. \A p \in Live' : OnQueue(p, queue) \/ waiting'[p]
      BY <1>2, <1>4 DEF PInv, OnePlace
  <2>2. \A p \in Proc \ Live' : ~waiting'[p]
      BY <1>1, <1>2, <1>4 DEF PInv, OnePlace
  <2> QED
      BY <1>1, <1>2, <1>3, <1>4, <2>1, <2>2, DispatchPlaced
<1>5. ASSUME NEW par \in Proc, waiting[par],
             waiting' = [waiting EXCEPT ![par] = FALSE],
             Dispatch("exit", Append(queue, par))
      PROVE  OnePlace'
  <2> DEFINE q == Append(queue, par)
  <2>1. par \in Live /\ par # curr_proc /\ par \in Live' /\ ~waiting'[par]
      BY <1>1, <1>2, <1>5 DEF PInv, OnePlace
  <2>2. ~OnQueue(par, queue)
      BY <1>5 DEF PInv, OnePlace, ReadyOK, OnQueue
  <2>3. ReadyOK(queue, waiting', Live')
      BY <1>1, <1>3, <1>5, <2>2 DEF ReadyOK, OnQueue
  <2>4. ReadyOK(q, waiting', Live')
      BY <1>1, <2>1, <2>2, <2>3, ReadyPush
  <2>5. \A p : OnQueue(p, q) <=> OnQueue(p, queue) \/ p = par
      BY <1>1, OnQueuePush
  <2>6. \A p \in Proc : p # par => waiting'[p] = waiting[p]
      BY <1>1, <1>5
  <2>7. \A p \in Live' : OnQueue(p, q) \/ waiting'[p]
    <3>1. Live \subseteq Proc
        BY CreatedType DEF PInv, IInv, Live
    <3> QED
        BY <1>2, <2>5, <2>6, <3>1 DEF PInv, OnePlace
  <2>8. \A p \in Proc \ Live' : ~waiting'[p]
      BY <1>2, <2>1, <2>6 DEF PInv, OnePlace
  <2>9. q \in Seq(Proc)
      BY <1>1
  <2> HIDE DEF q
  <2>10. Dispatch("exit", q)
      BY <1>5 DEF q
  <2> QED
      BY <1>1, <1>2, <2>4, <2>7, <2>8, <2>9, <2>10, DispatchPlaced
<1>6. \/ UNCHANGED waiting /\ Dispatch("exit", queue)
      \/ \E par \in Proc : /\ waiting[par]
                           /\ waiting' = [waiting EXCEPT ![par] = FALSE]
                           /\ Dispatch("exit", Append(queue, par))
    BY DEF ExitFunc, SwitchExit, WakeParent, PushProcToQueue, PInv, IInv, TypeOK
<1> QED
    BY <1>4, <1>5, <1>6

\* Wait moves curr_proc from the machine to the waiting processes.
LEMMA BlockPlaced ==
    ASSUME PInv, cpu # idle,
           waiting' = [waiting EXCEPT ![curr_proc] = TRUE],
           Dispatch("wait", queue), UNCHANGED <<next_proc_id, dead>>
    PROVE  OnePlace'
<1>1. /\ queue \in Seq(Proc) /\ waiting \in [Proc -> BOOLEAN]
      /\ curr_proc \in Live /\ curr_proc \in Proc
      /\ idle \in Proc \ Live
      /\ Live \subseteq Proc
      /\ Live' = Live
    BY CreatedType DEF PInv, IInv, TypeOK, SchedOK, OnePlace, Live, Created
<1>2. \A p \in Proc : waiting'[p] <=> waiting[p] \/ p = curr_proc
    BY <1>1
<1>3. ReadyOK(queue, waiting', Live')
    BY <1>1, <1>2 DEF PInv, OnePlace, ReadyOK, OnQueue
<1>4. \A p \in Live' : OnQueue(p, queue) \/ waiting'[p]
    BY <1>1, <1>2 DEF PInv, OnePlace
<1>5. \A p \in Proc \ Live' : ~waiting'[p]
    BY <1>1, <1>2 DEF PInv, OnePlace
<1> QED
    BY <1>1, <1>3, <1>4, <1>5, DispatchPlaced

\* With nobody delayed the clock handler only rotates the ready queue.
LEMMA ClockPlaced ==
    ASSUME PInv, NEW i \in Nat \ {0}, ClockFrom(i)
    PROVE  NoDevices' /\ OnePlace'
<1>0. /\ queue \in Seq(Proc) /\ curr_proc \in Proc
      /\ UNCHANGED <<next_proc_id, dead, waiting, transmits>>
    BY DEF PInv, IInv, TypeOK, ClockFrom
<1>1. Expiring(i) = {}
    BY DEF PInv, NoDevices, Expiring
<1>2. UNCHANGED waiting_queue /\ Tick_
    BY <1>1 DEF ClockFrom
<1>3. CASE queue # <<>> /\ SetNextProc
  <2> DEFINE q == Append(queue, curr_proc)
  <2>1. /\ queue' = Tail(q) /\ curr_proc' = Head(q)
        /\ q \in Seq(Proc) /\ q # <<>>
      BY <1>0, <1>3 DEF SetNextProc, PushProcToQueue
  <2>2. curr_proc \in Live /\ Live' = Live
      BY <1>0, <1>3 DEF PInv, IInv, SchedOK, OnePlace, Live, Created
  <2>3. ReadyOK(q, waiting', Live')
      BY <1>0, <2>2, ReadyPush DEF PInv, OnePlace
  <2>4. \A p : OnQueue(p, q) <=> OnQueue(p, queue) \/ p = curr_proc
      BY <1>0, OnQueuePush
  <2> HIDE DEF q
  <2>5. /\ ReadyOK(Tail(q), waiting', Live')
        /\ ~OnQueue(Head(q), Tail(q))
        /\ Head(q) \in Live' /\ ~waiting'[Head(q)]
      BY <2>1, <2>3, ReadyTail
  <2>6. \A p \in Live' : p = Head(q) \/ OnQueue(p, Tail(q)) \/ waiting'[p]
      BY <1>0, <2>1, <2>2, <2>4, OnQueueTail DEF PInv, OnePlace
  <2> QED
      BY <1>0, <1>2, <2>1, <2>2, <2>5, <2>6 DEF PInv, NoDevices, OnePlace
<1>4. CASE UNCHANGED <<queue, curr_proc>>
    BY <1>0, <1>2, <1>4, PlacedUnchanged DEF PInv, NoDevices
<1> QED
    BY <1>2, <1>3, <1>4 DEF Tick_

\* What the programs of this section do not do.
LEMMA NoDeviceCalls ==
    ASSUME Calls \cap {"Delay", "TtyWrite"} = {}, NoDevices, TypeOK
    PROVE  /\ ~TtyWriteFunc
           /\ ~TrapTTYTransmitHandler
           /\ \A n \in 1 .. MaxDelay : ~DelayFunc(n)
  BY DEF TtyWriteFunc, DelayFunc, UserCall, TrapTTYTransmitHandler, NoDevices

\* Every step keeps each process in its place.
LEMMA PInvStep ==
    ASSUME Calls \cap {"Delay", "TtyWrite"} = {}, PInv, [Next]_vars
    PROVE  PInv'
<1> SUFFICES NoDevices' /\ OnePlace'
    BY IInvStep DEF PInv
<1>0. NoDevices /\ OnePlace /\ TypeOK
    BY DEF PInv, IInv
<1>1. CASE ForkFunc
    BY <1>0, <1>1, ForkPlaced DEF ForkFunc, NoDevices
<1>2. ASSUME NEW status \in Int, ExitFunc(status), cpu # idle
      PROVE  NoDevices' /\ OnePlace'
    BY <1>0, <1>2, ExitPlaced DEF ExitFunc, NoDevices
<1>3. ASSUME NEW s \in Status, Exit(s)
      PROVE  NoDevices' /\ OnePlace'
    BY <1>2, <1>3 DEF Exit, UserCall
<1>4. ASSUME UNCHANGED <<next_proc_id, dead, waiting, queue, curr_proc,
                         waiting_queue, transmits>>
      PROVE  NoDevices' /\ OnePlace'
    BY <1>0, <1>4, PlacedUnchanged DEF NoDevices
<1>5. CASE TrapIllegalHandler \/ TrapMathHandler \/ TrapMemoryHandler
    BY <1>2, <1>4, <1>5
    DEF TrapIllegalHandler, TrapMathHandler, TrapMemoryHandler, UserCall, vars
<1>6. CASE WaitFunc
  <2>1. CASE Collect(curr_proc) \/ UNCHANGED vars
      BY <1>4, <2>1 DEF Collect, Crash, vars
  <2>2. CASE /\ waiting' = [waiting EXCEPT ![curr_proc] = TRUE]
             /\ Dispatch("wait", queue)
             /\ UNCHANGED <<next_proc_id, dead, waiting_queue, transmits>>
      BY <1>0, <1>6, <2>2, BlockPlaced DEF WaitFunc, UserCall, NoDevices
  <2> QED
      BY <1>6, <2>1, <2>2 DEF WaitFunc
<1>7. CASE TtyReadFunc \/ ForkUnmapped \/ Stopped \/ UNCHANGED vars
    BY <1>4, <1>7 DEF TtyReadFunc, ForkUnmapped, Crash, Stopped, vars
<1>8. CASE TrapClockHandler
    BY <1>8, ClockPlaced DEF TrapClockHandler
<1>9. CASE Resume
  <2>1. ASSUME NEW i \in 1 .. Len(waiting_queue) + 1, ClockFrom(i)
        PROVE  NoDevices' /\ OnePlace'
    <3>1. i \in Nat \ {0}
        BY <1>0 DEF TypeOK
    <3> QED
        BY <2>1, <3>1, ClockPlaced
  <2>2. CASE ResumeReturn \/ ResumeWait \/ ResumeExit \/ ResumeForeign
      BY <1>4, <2>2
      DEF ResumeReturn, ResumeWait, Collect, ResumeExit, ResumeForeign, Crash
  <2>3. CASE ResumeClock
      BY <1>4, <2>1, <2>3 DEF ResumeClock, Crash
  <2> QED
      BY <1>9, <2>2, <2>3 DEF Resume
<1> QED
    BY <1>0, <1>1, <1>3, <1>5, <1>6, <1>7, <1>8, <1>9, NoDeviceCalls DEF Next

LEMMA PInvInit ==
    ASSUME Init, IInv
    PROVE  PInv
<1>1. Live = {init} /\ init # idle
    BY DEF Init, Live, Created, init, idle
<1>2. \A p \in Proc : ~waiting[p]
    BY DEF Init, create_pcb
<1>3. init \in Proc
    BY ConstantsAssumption DEF init, Proc
<1>4. OnePlace
    BY <1>1, <1>2, <1>3 DEF Init, OnePlace, ReadyOK, OnQueue
<1> QED
    BY <1>4 DEF PInv, Init, NoDevices

LEMMA PInvCorrect ==
    ASSUME Calls \cap {"Delay", "TtyWrite"} = {}
    PROVE  Spec => []PInv
  BY IInvCorrect, PInvInit, PInvStep, PTL DEF Spec

LEMMA PlacedOnce ==
    ASSUME PInv
    PROVE  LiveInOnePlace
<1>1. \A i, j \in 1 .. Len(queue) : queue[i] = queue[j] => i = j
    BY DEF PInv, OnePlace, ReadyOK
<1>2. ASSUME NEW p \in Proc
      PROVE  LET places == {x \in {"curr", "ready", "wait"} :
                              \/ x = "curr" /\ curr_proc = p
                              \/ x = "ready" /\ OnQueue(p, queue)
                              \/ x = "wait" /\ waiting[p]}
             IN  /\ p \in Live => Cardinality(places) = 1
                 /\ p \notin Live \cup {idle} => places = {}
  <2> DEFINE places == {x \in {"curr", "ready", "wait"} :
                            \/ x = "curr" /\ curr_proc = p
                            \/ x = "ready" /\ OnQueue(p, queue)
                            \/ x = "wait" /\ waiting[p]}
  <2>1. /\ OnQueue(p, queue) => p \in Live /\ ~waiting[p] /\ p # curr_proc
        /\ p = curr_proc => p \in Live \cup {idle} /\ ~waiting[p]
        /\ p \notin Live => ~waiting[p]
        /\ p \in Live => p = curr_proc \/ OnQueue(p, queue) \/ waiting[p]
      BY DEF PInv, OnePlace, ReadyOK, OnQueue
  <2>2. p \notin Live \cup {idle} => places = {}
      BY <2>1
  <2>3. ASSUME p \in Live
        PROVE  \E x : places = {x}
    <3>1. CASE p = curr_proc
      <4>1. places = {"curr"}
          BY <2>1, <3>1
      <4> QED
          BY <4>1
    <3>2. CASE OnQueue(p, queue)
      <4>1. places = {"ready"}
          BY <2>1, <3>2
      <4> QED
          BY <4>1
    <3>3. CASE waiting[p]
      <4>1. places = {"wait"}
          BY <2>1, <3>3
      <4> QED
          BY <4>1
    <3> QED
        BY <2>1, <2>3, <3>1, <3>2, <3>3
  <2> HIDE DEF places
  <2>4. p \in Live => Cardinality(places) = 1
      BY <2>3, FS_Singleton
  <2> QED
      BY <2>2, <2>4 DEF places
<1> QED
    BY <1>1, <1>2 DEF LiveInOnePlace

\* For programs that neither Delay nor write to a terminal, however many they
\* are, every live process is at any time in exactly one place: current, once on
\* the ready queue, or waiting; a process that has exited is in none.
THEOREM OnePlaceCorrect ==
    ASSUME Calls \cap {"Delay", "TtyWrite"} = {}
    PROVE  Spec => []LiveInOnePlace
  BY PInvCorrect, PlacedOnce, PTL

-----------------------------------------------------------------------------
(* The machine falls idle only after the last exit: among processes that    *)
(* all wait, the youngest would wait for a child younger than itself.       *)

\* A process is younger than its parent.
ParentOlder == \A c \in Proc : parent[c] < c

LEMMA OlderStep ==
    ASSUME TypeOK, SchedOK, ParentOlder, [Next]_vars
    PROVE  ParentOlder'
<1>1. CASE ForkFunc
  <2>1. parent' = [parent EXCEPT ![next_proc_id] = curr_proc]
      BY <1>1 DEF ForkFunc
  <2>2. curr_proc < next_proc_id
      BY DEF SchedOK, Created, TypeOK
  <2>3. \A c \in Proc : parent'[c] = IF c = next_proc_id THEN curr_proc
                                                         ELSE parent[c]
      BY <2>1 DEF TypeOK
  <2> QED
      BY <2>2, <2>3 DEF ParentOlder
<1>2. ASSUME NEW status \in Int, ExitFunc(status)
      PROVE  ParentOlder'
  <2>1. \A c \in Proc : parent'[c] = NULL \/ parent'[c] = parent[c]
      BY <1>2, ExitEffect
  <2> QED
      BY <2>1 DEF ParentOlder, NULL, Proc
<1>3. ASSUME UNCHANGED parent
      PROVE  ParentOlder'
    BY <1>3 DEF ParentOlder
<1>4. ASSUME NEW s \in Status, Exit(s)
      PROVE  ParentOlder'
    BY <1>2, <1>4 DEF Exit
<1>5. CASE TrapIllegalHandler \/ TrapMathHandler \/ TrapMemoryHandler
    BY <1>2, <1>3, <1>5
    DEF TrapIllegalHandler, TrapMathHandler, TrapMemoryHandler, vars
<1>6. CASE \/ ForkUnmapped \/ WaitFunc \/ TtyWriteFunc
           \/ TrapTTYTransmitHandler \/ TtyReadFunc
           \/ TrapClockHandler \/ Resume \/ Stopped
           \/ \E n \in 1 .. MaxDelay : DelayFunc(n)
           \/ UNCHANGED vars
  <2>1. UNCHANGED parent
      BY <1>6
      DEF ForkUnmapped, WaitFunc, Collect, TtyWriteFunc, TtyTransmitFunc,
          TrapTTYTransmitHandler, TtyReadFunc, TrapClockHandler, ClockFrom,
          Resume, ResumeReturn, ResumeWait, ResumeClock, ResumeExit,
          ResumeForeign, Stopped, DelayFunc, Crash, vars
  <2> QED
      BY <1>3, <2>1
<1> QED
    BY <1>1, <1>4, <1>5, <1>6 DEF Next

LEMMA OlderCorrect == Spec => []ParentOlder
<1>1. ASSUME Init
      PROVE  ParentOlder
    BY <1>1 DEF Init, create_pcb, ParentOlder, NULL, Proc
<1>2. IInv => TypeOK /\ SchedOK
    BY DEF IInv
<1> QED
    BY <1>1, <1>2, IInvCorrect, OlderStep, PTL DEF Spec

\* If every live process waited, the youngest would have a younger live child.
LEMMA SomeoneNotWaiting ==
    ASSUME IInv, ParentOlder, Live # {}
    PROVE  \E p \in Live : ~waiting[p]
<1> SUFFICES ASSUME \A p \in Live : waiting[p]
             PROVE  FALSE
    OBVIOUS
<1>1. Live \subseteq Proc /\ MaxPid \in Nat
    BY CreatedType, ConstantsAssumption DEF IInv, Live
<1> DEFINE T == {MaxPid - p : p \in Live}
<1>2. T \in SUBSET Nat /\ T # {}
  <2>1. \A p \in Proc : MaxPid - p \in Nat
      BY <1>1 DEF Proc
  <2> QED
      BY <1>1, <2>1
<1> HIDE DEF T
<1>3. PICK n \in T : \A m \in T : n <= m
    BY <1>2, LeastNumber
<1>4. PICK p \in Live : n = MaxPid - p
    BY <1>3 DEF T
<1>5. PICK c \in Created \ dead : parent[c] = p
    BY <1>1, <1>4 DEF IInv, FamilyPart, NoLostWakeup, Live
<1>6. c \in Proc /\ p < c /\ p \in Proc
    BY <1>1, <1>4, <1>5, CreatedType DEF IInv, ParentOlder
<1>7. c \in Live
    BY <1>5, <1>6 DEF Live, idle, Proc
<1>8. MaxPid - c \in T
    BY <1>7 DEF T
<1> QED
    BY <1>1, <1>3, <1>4, <1>6, <1>8 DEF Proc

LEMMA IdleOrLive ==
    ASSUME PInv, ParentOlder
    PROVE  cpu = idle => Live = {}
<1> SUFFICES ASSUME cpu = idle, Live # {}
             PROVE  FALSE
    OBVIOUS
<1>1. curr_proc = idle /\ queue = <<>>
    BY DEF PInv, IInv, SchedOK
<1>2. \A p \in Live : waiting[p]
    BY <1>1 DEF PInv, OnePlace, OnQueue, Live
<1> QED
    BY <1>2, SomeoneNotWaiting DEF PInv

\* For programs that neither Delay nor write to a terminal, the machine falls
\* idle only when all processes have exited, however large the families are.
THEOREM IdleLastCorrect ==
    ASSUME Calls \cap {"Delay", "TtyWrite"} = {}
    PROVE  Spec => []IdleAfterLastExit
<1>1. PInv /\ ParentOlder => IdleAfterLastExit
    BY IdleOrLive DEF IdleAfterLastExit
<1> QED
    BY <1>1, PInvCorrect, OlderCorrect, PTL

-----------------------------------------------------------------------------
(* The kernel implements Family.tla: step by step, a Fork, an Exit, a Wait  *)
(* that blocks and a Wait that returns are those of a live process that is  *)
(* not blocked, and all other steps leave the families alone.               *)

\* The parents that Family.tla sees, and the processes it sees blocked.
LiveParent == [p \in Proc |-> IF p \in Live THEN parent[p] ELSE NULL]
Blocked == {p \in Proc : waiting[p]}

LEMMA FamilyStutter ==
    ASSUME UNCHANGED <<next_proc_id, dead, parent, exited_children, waiting>>
    PROVE  UNCHANGED F!vars
  BY DEF F!vars, Live, Created

\* What the steps of curr_proc need: it is alive and not blocked.
LEMMA CurrentRunnable ==
    ASSUME PInv, cpu # idle
    PROVE  /\ curr_proc \in Live \ Blocked
           /\ curr_proc \in Proc
           /\ Live \subseteq Proc
           /\ NULL \notin Proc
<1>1. curr_proc \in Live \ Blocked /\ curr_proc \in Proc
    BY DEF PInv, IInv, SchedOK, OnePlace, Blocked, TypeOK
<1>2. Live \subseteq Proc
    BY CreatedType DEF PInv, IInv, Live
<1>3. NULL \notin Proc
    BY DEF NULL, Proc
<1> QED
    BY <1>1, <1>2, <1>3

LEMMA ForkRefines ==
    ASSUME PInv, ForkFunc
    PROVE  F!Fork(curr_proc)
<1> DEFINE child == next_proc_id
<1>1. /\ child \in Proc \ Created
      /\ Created' = Created \cup {child}
      /\ child # idle
      /\ child <= MaxPid
      /\ next_proc_id' = child + 1
  <2>1. child \in 2 .. MaxPid /\ next_proc_id' = child + 1 /\ MaxPid \in Nat
      BY ConstantsAssumption DEF PInv, IInv, TypeOK, ForkFunc
  <2> QED
      BY <2>1 DEF Created, Proc, idle
<1>2. /\ UNCHANGED <<exited_children, waiting, dead>>
      /\ parent' = [parent EXCEPT ![child] = curr_proc]
      /\ parent \in [Proc -> Proc \cup {NULL}]
    BY DEF ForkFunc, PInv, IInv, TypeOK
<1>3. child \notin dead
    BY <1>1 DEF PInv, IInv, FamilyPart, FreshApart
<1> HIDE DEF child
<1>4. Live' = Live \cup {child} /\ child \notin Live
    BY <1>1, <1>2, <1>3 DEF Live
<1>5. LiveParent' = [LiveParent EXCEPT ![child] = curr_proc]
    BY <1>1, <1>2, <1>4 DEF LiveParent
<1> QED
    BY <1>1, <1>2, <1>4, <1>5 DEF F!Fork, LiveParent, child

LEMMA TerminateRefines ==
    ASSUME PInv, ParentOlder, cpu # idle, NEW s \in {0, 1}, ExitFunc(s)
    PROVE  F!Terminate(curr_proc, s)
<1> DEFINE p == curr_proc
<1>1. /\ p \in Live \ Blocked /\ p \in Proc /\ Live \subseteq Proc
      /\ NULL \notin Proc
    BY CurrentRunnable
<1>2. /\ parent \in [Proc -> Proc \cup {NULL}]
      /\ waiting \in [Proc -> BOOLEAN]
      /\ children[p] = {c \in Created \ dead : parent[c] = p}
    BY <1>1 DEF PInv, IInv, TypeOK, FamilyPart, FamilyInv, Live
<1>3. /\ parent' = [c \in Proc |-> IF c \in children[p]
                                   THEN NULL ELSE parent[c]]
      /\ Live' = Live \ {p}
      /\ UNCHANGED next_proc_id
    BY ExitEffect DEF PInv, IInv, Live, ExitFunc
<1>4. LiveParent' = [c \in Proc |-> IF c = p \/ LiveParent[c] = p
                                    THEN NULL ELSE LiveParent[c]]
  <2>1. \A c \in Live : c \in children[p] <=> parent[c] = p
      BY <1>2 DEF Live
  <2>2. ASSUME NEW c \in Proc
        PROVE  LiveParent'[c] = IF c = p \/ LiveParent[c] = p
                                THEN NULL ELSE LiveParent[c]
      BY <1>1, <1>3, <2>1 DEF LiveParent
  <2> QED
      BY <2>2 DEF LiveParent
<1>5. LiveParent[p] = parent[p]
    BY <1>1 DEF LiveParent
<1>6. CASE parent[p] = NULL
  <2>1. UNCHANGED <<exited_children, waiting>>
      BY <1>6 DEF ExitFunc
  <2>2. Blocked' = Blocked \ {LiveParent[p]}
      BY <1>1, <1>5, <1>6, <2>1 DEF Blocked
  <2> QED
      BY <1>3, <1>4, <1>5, <1>6, <2>1, <2>2
      DEF F!Terminate, LiveParent, Blocked, F!Proc, Proc, F!NULL, NULL
<1>7. CASE parent[p] # NULL
  <2>1. /\ exited_children' = [exited_children EXCEPT
               ![parent[p]] = Append(@, [pid |-> p, status |-> s])]
        /\ waiting' = WakeParent(parent[p]).waiting
      BY <1>7 DEF ExitFunc, PushExitToExited
  <2>2. parent[p] \in Proc
      BY <1>1, <1>2, <1>7
  <2>3. \A q \in Proc : waiting'[q] <=> waiting[q] /\ q # parent[p]
      BY <1>2, <2>1, <2>2 DEF WakeParent
  <2>4. Blocked' = Blocked \ {LiveParent[p]}
      BY <1>5, <2>3 DEF Blocked
  <2> QED
      BY <1>3, <1>4, <1>5, <1>7, <2>1, <2>4
      DEF F!Terminate, LiveParent, Blocked, F!Proc, Proc, F!NULL, NULL
<1> QED
    BY <1>6, <1>7

LEMMA BlockRefines ==
    ASSUME PInv, ParentOlder, cpu # idle, MustBlock(curr_proc),
           waiting' = [waiting EXCEPT ![curr_proc] = TRUE],
           UNCHANGED <<next_proc_id, parent, exited_children, dead>>
    PROVE  F!Block(curr_proc)
<1>1. /\ curr_proc \in Live /\ curr_proc \in Proc /\ Live \subseteq Proc
    BY CurrentRunnable
<1>2. /\ children[curr_proc] = {c \in Created \ dead : parent[c] = curr_proc}
      /\ exited_children[curr_proc] = <<>> /\ children[curr_proc] # {}
    BY <1>1 DEF PInv, IInv, FamilyPart, FamilyInv, Live, MustBlock
<1>3. PICK c \in Created \ dead : parent[c] = curr_proc
    BY <1>2
<1>4. c \in Live
  <2>1. c \in Proc /\ curr_proc < c
      BY <1>3, CreatedType DEF PInv, IInv, ParentOlder
  <2> QED
      BY <1>1, <1>3, <2>1 DEF Live, Proc, idle
<1>5. LiveParent[c] = curr_proc
    BY <1>1, <1>3, <1>4 DEF LiveParent
<1>6. Live' = Live /\ LiveParent' = LiveParent
    BY DEF Live, Created, LiveParent
<1>7. Blocked' = Blocked \cup {curr_proc}
    BY <1>1 DEF Blocked, PInv, IInv, TypeOK
<1> QED
    BY <1>2, <1>4, <1>5, <1>6, <1>7 DEF F!Block, LiveParent, Blocked

\* Wait returns, or the kernel faults.
LEMMA CollectRefines ==
    ASSUME PInv, Collect(curr_proc)
    PROVE  F!Collect(curr_proc) \/ UNCHANGED F!vars
<1>1. CASE Crash("fault")
    BY <1>1, FamilyStutter DEF Crash
<1>2. CASE /\ RemoveHeadFromExitQueue(curr_proc)
           /\ UNCHANGED <<next_proc_id, parent, waiting, dead>>
  <2>1. exited_children[curr_proc] # <<>>
      BY <1>2 DEF RemoveHeadFromExitQueue, PInv, IInv, TypeOK
  <2>2. Live' = Live /\ LiveParent' = LiveParent /\ Blocked' = Blocked
      BY <1>2 DEF Live, Created, LiveParent, Blocked
  <2> QED
      BY <1>2, <2>1, <2>2
      DEF F!Collect, RemoveHeadFromExitQueue, LiveParent, Blocked
<1> QED
    BY <1>1, <1>2 DEF Collect

\* No exit record is ever left with the idle process, so that it is never
\* resumed in Wait to collect one.
IdleChildless == exited_children[idle] = <<>>

LEMMA ChildlessStep ==
    ASSUME IInv, IdleChildless, [Next]_vars
    PROVE  IdleChildless'
<1>0. /\ idle \in Proc
      /\ exited_children \in [Proc -> Seq([pid : Proc, status : Int])]
      /\ curr_proc \in Proc
    BY CreatedType DEF IInv, TypeOK
<1>1. ASSUME NEW status \in Int, ExitFunc(status)
      PROVE  IdleChildless'
  <2>1. parent[curr_proc] # idle
      BY <1>0 DEF IInv, FamilyPart, IdleApart
  <2> QED
      BY <1>0, <1>1, <2>1, ExitEffect DEF IInv, IdleChildless
<1>2. ASSUME Collect(curr_proc)
      PROVE  IdleChildless'
    BY <1>0, <1>2
    DEF Collect, Crash, RemoveHeadFromExitQueue, IdleChildless
<1>3. ASSUME UNCHANGED exited_children
      PROVE  IdleChildless'
    BY <1>3 DEF IdleChildless
<1>4. ASSUME NEW s \in Status, Exit(s)
      PROVE  IdleChildless'
    BY <1>1, <1>4 DEF Exit
<1>5. CASE TrapIllegalHandler \/ TrapMathHandler \/ TrapMemoryHandler
    BY <1>1, <1>3, <1>5
    DEF TrapIllegalHandler, TrapMathHandler, TrapMemoryHandler, vars
<1>6. CASE WaitFunc \/ ResumeWait
    BY <1>2, <1>3, <1>6 DEF WaitFunc, ResumeWait, vars
<1>7. CASE \/ ForkFunc \/ ForkUnmapped \/ TtyWriteFunc
           \/ TrapTTYTransmitHandler \/ TtyReadFunc
           \/ TrapClockHandler \/ Stopped
           \/ ResumeReturn \/ ResumeClock \/ ResumeExit \/ ResumeForeign
           \/ \E n \in 1 .. MaxDelay : DelayFunc(n)
           \/ UNCHANGED vars
  <2>1. UNCHANGED exited_children
      BY <1>7
      DEF ForkFunc, ForkUnmapped, TtyWriteFunc, TtyTransmitFunc,
          TrapTTYTransmitHandler, TtyReadFunc, TrapClockHandler, ClockFrom,
          ResumeReturn, ResumeClock, ResumeExit, ResumeForeign, Stopped,
          DelayFunc, Crash, vars
  <2> QED
      BY <1>3, <2>1
<1> QED
    BY <1>4, <1>5, <1>6, <1>7 DEF Next, Resume

LEMMA ChildlessCorrect == Spec => []IdleChildless
<1>1. ASSUME Init
      PROVE  IdleChildless
    BY <1>1, ConstantsAssumption
    DEF Init, create_pcb, IdleChildless, idle, Proc
<1> QED
    BY <1>1, IInvCorrect, ChildlessStep, PTL DEF Spec

\* Every step of the kernel is a step of a family or leaves families alone.
LEMMA FamilyStep ==
    ASSUME Calls \cap {"Delay", "TtyWrite"} = {},
           PInv, ParentOlder, IdleChildless, [Next]_vars
    PROVE  [F!Next]_(F!vars)
<1>0. TypeOK /\ NoDevices
    BY DEF PInv, IInv
<1>1. ASSUME cpu # idle,
             \/ F!Fork(curr_proc)
             \/ \E s \in {0, 1} : F!Terminate(curr_proc, s)
             \/ F!Block(curr_proc)
             \/ F!Collect(curr_proc)
      PROVE  F!Next
  <2>1. curr_proc \in F!Runnable
      BY <1>1, CurrentRunnable DEF F!Runnable, Blocked
  <2>2. \E p \in F!Runnable :
            \/ F!Fork(p)
            \/ \E s \in {0, 1} : F!Terminate(p, s)
            \/ F!Block(p)
            \/ F!Collect(p)
      BY <1>1, <2>1, Zenon DEF F!Fork, F!Terminate, F!Block, F!Collect
  <2> QED
      BY <2>2 DEF F!Next
<1>2. CASE ForkFunc
    BY <1>1, <1>2, ForkRefines DEF ForkFunc, UserCall
<1>3. ASSUME NEW s \in {0, 1}, ExitFunc(s), cpu # idle
      PROVE  F!Next
    BY <1>1, <1>3, TerminateRefines
<1>4. ASSUME UNCHANGED <<next_proc_id, dead, parent, exited_children, waiting>>
      PROVE  UNCHANGED F!vars
    BY <1>4, FamilyStutter
<1>5. ASSUME NEW s \in Status, Exit(s)
      PROVE  F!Next
    BY <1>3, <1>5 DEF Exit, UserCall
<1>6. CASE TrapIllegalHandler \/ TrapMathHandler \/ TrapMemoryHandler
    BY <1>3, <1>4, <1>6
    DEF TrapIllegalHandler, TrapMathHandler, TrapMemoryHandler, UserCall, vars
<1>7. CASE WaitFunc
  <2>1. CASE Collect(curr_proc)
      BY <1>1, <1>7, <2>1, CollectRefines DEF WaitFunc, UserCall
  <2>2. CASE UNCHANGED vars
      BY <1>4, <2>2 DEF vars
  <2>3. CASE /\ MustBlock(curr_proc)
             /\ waiting' = [waiting EXCEPT ![curr_proc] = TRUE]
             /\ UNCHANGED <<next_proc_id, parent, exited_children, dead>>
      BY <1>1, <1>7, <2>3, BlockRefines DEF WaitFunc, UserCall
  <2> QED
      BY <1>7, <2>1, <2>2, <2>3 DEF WaitFunc
<1>8. CASE \/ ForkUnmapped \/ TtyReadFunc \/ TrapClockHandler \/ Stopped
           \/ ResumeReturn \/ ResumeClock \/ ResumeExit \/ ResumeForeign
           \/ UNCHANGED vars
    BY <1>4, <1>8
    DEF ForkUnmapped, TtyReadFunc, TrapClockHandler, ClockFrom, Stopped,
        ResumeReturn, ResumeClock, ResumeExit, ResumeForeign, Crash, vars
<1>9. CASE ResumeWait
  <2>1. Collect(curr_proc)
      BY <1>9 DEF ResumeWait
  <2>2. CASE cpu # idle
      BY <1>1, <2>1, <2>2, CollectRefines
  <2>3. CASE cpu = idle
    <3>1. exited_children[curr_proc] = <<>>
        BY <2>3 DEF PInv, IInv, SchedOK, IdleChildless
    <3>2. Crash("fault")
        BY <2>1, <3>1 DEF Collect, RemoveHeadFromExitQueue
    <3> QED
        BY <1>4, <3>2 DEF Crash
  <2> QED
      BY <2>2, <2>3
<1> QED
    BY <1>0, <1>2, <1>5, <1>6, <1>7, <1>8, <1>9, NoDeviceCalls DEF Next, Resume

LEMMA FamilyInit ==
    ASSUME Init
    PROVE  F!Init
<1>1. Live = {1}
    BY DEF Init, Live, Created, idle
<1>2. LiveParent = [p \in Proc |-> NULL]
    BY DEF Init, create_pcb, LiveParent
<1>3. Blocked = {}
    BY DEF Init, create_pcb, Blocked
<1>4. exited_children = [p \in Proc |-> <<>>] /\ next_proc_id = 2
    BY DEF Init, create_pcb
<1> QED
    BY <1>1, <1>2, <1>3, <1>4
    DEF F!Init, F!init, F!Proc, F!NULL, Proc, NULL, LiveParent, Blocked

\* For programs that neither Delay nor write to a terminal, the kernel keeps
\* the promises of Family.tla: queues, contexts and the clock never let a process
\* that is blocked or has exited take part in a family.
THEOREM FamilyRefinement ==
    ASSUME Calls \cap {"Delay", "TtyWrite"} = {}
    PROVE  Spec => FamilySpec
<1>1. Init => F!Init
    BY FamilyInit
<1>2. PInv /\ ParentOlder /\ IdleChildless /\ [Next]_vars => [F!Next]_(F!vars)
    BY FamilyStep
<1> QED
    BY <1>1, <1>2, PInvCorrect, OlderCorrect, ChildlessCorrect, PTL
    DEF Spec, FamilySpec, F!Spec

=============================================================================
