-------------------------------- MODULE Lists --------------------------------
(***************************************************************************)
(* The ready queue and the waiting queue of sharedvar.c as linked lists,   *)
(* one action per list operation; the handlers call them in turn.  Both    *)
(* lists are made of queue_items from one heap.  malloc returns any item   *)
(* that is not allocated, with what it held before: PushProcToQueue sets   *)
(* neither next nor prev, and the lists rely on queue_size instead.        *)
(***************************************************************************)
EXTENDS Integers, Sequences, FiniteSets

CONSTANTS
    Proc,        \* the processes that are queued
    Item         \* bound: the queue_items that malloc can return

ASSUME ItemAssumption == Item # {} /\ Item \subseteq Nat \ {0}

NULL == 0

VARIABLES
    heap,                \* the allocated items
    prev, proc, next,    \* the fields of the items
    queue_head, queue_tail, queue_size,
    waiting_queue_head, waiting_queue_tail, waiting_queue_size,
    curr_proc_item       \* where a suspended TrapClockHandler is in its loop

readyVars == <<queue_head, queue_tail, queue_size>>
waitingVars == <<waiting_queue_head, waiting_queue_tail, waiting_queue_size>>
vars == <<heap, prev, proc, next, readyVars, waitingVars, curr_proc_item>>

\* A fresh heap is zeroed.
Init ==
    /\ heap = {}
    /\ prev = [i \in Item |-> NULL]
    /\ proc = [i \in Item |-> NULL]
    /\ next = [i \in Item |-> NULL]
    /\ queue_head = NULL /\ queue_tail = NULL /\ queue_size = 0
    /\ waiting_queue_head = NULL /\ waiting_queue_tail = NULL
    /\ waiting_queue_size = 0
    /\ curr_proc_item = NULL

\* Item new is allocated and holds p.
malloc(new, p) ==
    /\ new \in Item \ heap
    /\ heap' = heap \cup {new}
    /\ proc' = [proc EXCEPT ![new] = p]

\* The first n items from item h on, along link.
Walk(link, h, n) ==
    LET item[k \in 1 .. n] == IF k = 1 THEN h ELSE link[item[k - 1]]
    IN  [k \in 1 .. n |-> item[k]]

Cells(s) == {s[k] : k \in 1 .. Len(s)}

Ready == Walk(next, queue_head, queue_size)
Waiting == Walk(next, waiting_queue_head, waiting_queue_size)

-----------------------------------------------------------------------------
(* Ready queue.                                                             *)

PushProcToQueue(p) ==
    \E new \in Item :
        /\ malloc(new, p)
        /\ next' = IF queue_size = 0 THEN next
                   ELSE [next EXCEPT ![queue_tail] = new]
        /\ queue_head' = IF queue_size = 0 THEN new ELSE queue_head
        /\ queue_tail' = new
        /\ queue_size' = queue_size + 1
        /\ UNCHANGED <<prev, waitingVars, curr_proc_item>>

\* Take n items off the head, one by one: every new head gets prev = NULL.
RemoveHeads(n) ==
    LET taken == {Ready[k] : k \in 1 .. n}
        heads == {Ready[k] : k \in (2 .. n + 1) \cap (1 .. queue_size)}
    IN  /\ heap' = heap \ taken
        /\ queue_size' = queue_size - n
        /\ queue_head' = IF n = queue_size THEN NULL ELSE Ready[n + 1]
        /\ queue_tail' = IF n = queue_size THEN NULL ELSE queue_tail
        /\ prev' = [i \in Item |-> IF i \in heads THEN NULL ELSE prev[i]]
        /\ UNCHANGED <<proc, next, waitingVars, curr_proc_item>>

\* RemoveItemFromReadyQueue(queue_head), the call in FindReadyPcb.
FindReadyPcb == queue_size > 0 /\ RemoveHeads(1)

\* Mutated form of SetNextProc: the head is not shifted.
SetNextProcKeepsHead(p) ==
    /\ queue_size > 0
    /\ \E new \in Item :
          /\ malloc(new, p)
          /\ next' = [next EXCEPT ![queue_tail] = new]
          /\ queue_tail' = new
    /\ UNCHANGED <<prev, queue_head, queue_size, waitingVars, curr_proc_item>>

\* With curr_proc = p.  The item at the head is unlinked and never freed.
SetNextProc(p) ==
    /\ queue_size > 0
    /\ \E new \in Item :
          /\ malloc(new, p)
          /\ next' = [next EXCEPT ![queue_tail] = new]
          /\ queue_tail' = new
          /\ queue_head' = next'[queue_head]
    /\ UNCHANGED <<prev, queue_size, waitingVars, curr_proc_item>>

\* The items that the loop of RemoveProcFromReadyQueue comes to: it stops at
\* NULL only.
Scanned ==
    LET n == Cardinality(Item) + 1
        item[k \in 1 .. n] ==
            IF k = 1 THEN queue_head
            ELSE IF item[k - 1] = NULL THEN NULL ELSE next[item[k - 1]]
    IN  {item[k] : k \in 1 .. n} \ {NULL}

ScanSound == Scanned = Cells(Ready)

\* Where the loop sees the queue and p has the n items at the head.  Elsewhere
\* it follows links of other items, or prev, which the queue does not set.
RemoveProcFromReadyQueue(p) ==
    /\ ScanSound
    /\ \E n \in 1 .. queue_size :
          /\ \A k \in 1 .. queue_size : proc[Ready[k]] = p <=> k <= n
          /\ RemoveHeads(n)

-----------------------------------------------------------------------------
(* Waiting queue.                                                           *)

\* Mutated form of NextWith: the new item keeps the next field it had.
NextUnset(new) ==
    IF waiting_queue_size = 0 THEN next
    ELSE [next EXCEPT ![waiting_queue_tail] = new]

\* The next fields with item new at the tail of the waiting queue.
NextWith(new) ==
    IF waiting_queue_size = 0 THEN [next EXCEPT ![new] = NULL]
    ELSE [next EXCEPT ![new] = NULL, ![waiting_queue_tail] = new]

\* Mutated form of PrevWith, as in PushProcToWaitingQueue, which nothing calls:
\* prev comes from the ready queue.
PrevFromReady(new) ==
    IF waiting_queue_size = 0 THEN prev ELSE [prev EXCEPT ![new] = queue_tail]

\* The prev fields; that of a first item is left as it was.
PrevWith(new) ==
    IF waiting_queue_size = 0 THEN prev
    ELSE [prev EXCEPT ![new] = waiting_queue_tail]

\* DelayFunc allocates the item for p before its scan of the ready queue; here
\* any free item will do.
PushItemToWaitingQueue(p) ==
    /\ \E new \in Item :
          /\ malloc(new, p)
          /\ next' = NextWith(new)
          /\ prev' = PrevWith(new)
          /\ waiting_queue_head' = IF waiting_queue_size = 0 THEN new
                                   ELSE waiting_queue_head
          /\ waiting_queue_tail' = new
    /\ waiting_queue_size' = waiting_queue_size + 1
    /\ UNCHANGED <<readyVars, curr_proc_item>>

\* The waiting queue and the links without item x: the only item, the head, the
\* tail, and one in the middle.
Unlinked(x) ==
    LET h == waiting_queue_head
        t == waiting_queue_tail
    IN  CASE h = x /\ t = x ->
               [head |-> NULL, tail |-> NULL, next |-> next, prev |-> prev]
          [] h = x /\ t # x ->
               [head |-> next[x], tail |-> t, next |-> next,
                prev |-> [prev EXCEPT ![next[x]] = NULL]]
          [] h # x /\ t = x ->
               [head |-> h, tail |-> prev[x], prev |-> prev,
                next |-> [next EXCEPT ![prev[x]] = NULL]]
          [] OTHER ->
               [head |-> h, tail |-> t,
                next |-> [next EXCEPT ![prev[x]] = next[x]],
                prev |-> [prev EXCEPT ![next[x]] = prev[x]]]

\* In TrapClockHandler, whose loop stands at item x when it switches away.
RemoveItemFromWaitingQueue(x) ==
    LET u == Unlinked(x)
    IN  /\ heap' = heap \ {x}
        /\ next' = u.next
        /\ prev' = u.prev
        /\ waiting_queue_head' = u.head
        /\ waiting_queue_tail' = u.tail
        /\ waiting_queue_size' = waiting_queue_size - 1
        /\ curr_proc_item' = x
        /\ UNCHANGED <<proc, readyVars>>

\* The loop goes on at the next field of the freed item, and may come to the
\* removals above.  Where that is not on the waiting queue it is not defined.
ResumeSound == next[curr_proc_item] \in Cells(Waiting) \cup {NULL}

ResumeScan ==
    /\ curr_proc_item # NULL
    /\ ResumeSound
    /\ curr_proc_item' = NULL
    /\ UNCHANGED <<heap, prev, proc, next, readyVars, waitingVars>>

Next ==
    \/ \E p \in Proc : \/ PushProcToQueue(p)
                       \/ SetNextProc(p)
                       \/ RemoveProcFromReadyQueue(p)
                       \/ PushItemToWaitingQueue(p)
    \/ FindReadyPcb
    \/ \E k \in 1 .. waiting_queue_size : RemoveItemFromWaitingQueue(Waiting[k])
    \/ ResumeScan

Spec == Init /\ [][Next]_vars

-----------------------------------------------------------------------------
(* Properties.                                                              *)

\* The items of the two queues are allocated and different from each other, the
\* tails are the last items, and prev leads back along the waiting queue: a
\* stale link that malloc hands out never becomes part of a list.
ListsSound ==
    /\ Cells(Ready) \cup Cells(Waiting) \subseteq heap
    /\ Cardinality(Cells(Ready) \cup Cells(Waiting))
          = queue_size + waiting_queue_size
    /\ queue_size > 0 => queue_tail = Ready[queue_size]
    /\ waiting_queue_size > 0 =>
          waiting_queue_tail = Waiting[waiting_queue_size]
    /\ \A k \in 2 .. waiting_queue_size : prev[Waiting[k]] = Waiting[k - 1]

ReadyProcs == [k \in 1 .. queue_size |-> proc[Ready[k]]]
WaitingProcs == [k \in 1 .. waiting_queue_size |-> proc[Waiting[k]]]
Q == INSTANCE Queues WITH ready <- ReadyProcs, delayed <- WaitingProcs

\* The linked lists are the two queues of Queues.tla, and every operation on
\* them is its counterpart there, for the process it is called with.
QueuesSpec ==
    /\ Q!Init
    /\ [][/\ \A p \in Proc :
                /\ PushProcToQueue(p) => Q!Push(p)
                /\ SetNextProc(p) => Q!Rotate(p)
                /\ RemoveProcFromReadyQueue(p) => Q!Withdraw(p)
                /\ PushItemToWaitingQueue(p) => Q!Delay(p)
          /\ FindReadyPcb => Q!Pop
          /\ \A k \in 1 .. waiting_queue_size :
                RemoveItemFromWaitingQueue(Waiting[k]) => Q!Wake(k)
          /\ ResumeScan => UNCHANGED <<ReadyProcs, WaitingProcs>>]_vars

\* The loop of TrapClockHandler over the whole waiting queue ends: the last item
\* leads to NULL, which PushItemToWaitingQueue and the removal of the tail see
\* to.
ScanEnds ==
    waiting_queue_size > 0 => next[waiting_queue_tail] = NULL
=============================================================================
