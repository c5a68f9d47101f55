----------------------------- MODULE FamilyLists -----------------------------
(***************************************************************************)
(* The lists by which the kernel knows families: the children of a pcb,    *)
(* linked by next_sibling and prev_sibling, and its list of exit records.  *)
(* One action for each of Fork, Exit and Wait, called by any process that  *)
(* is not blocked: the scheduler is in Processes.tla.  A pcb is never      *)
(* freed; exit records are, and malloc returns any of the free ones.       *)
(***************************************************************************)
EXTENDS Integers, Sequences, FiniteSets, SequencesExt

CONSTANTS
    MaxPid,        \* bound: the highest process_id
    Item,          \* bound: the struct exitedChilds that malloc can return
    ExitStatus     \* the statuses of the exits

ASSUME FamilyListsAssumption ==
    /\ MaxPid \in Nat \ {0}
    /\ ExitStatus \subseteq Int
    /\ Item \subseteq Nat /\ IsFiniteSet(Item)

Proc == 0 .. MaxPid
init == 1
NULL == -1

VARIABLES
    next_proc_id, dead, parent, waiting,
    children_head, children_tail, next_sibling, prev_sibling,
    exited_children_head, exited_children_tail,
    heap,          \* the allocated exit records
    record,        \* process_id and status of an exit record
    next           \* its next record

childVars == <<children_head, children_tail, next_sibling, prev_sibling>>
exitVars == <<exited_children_head, exited_children_tail, heap, record, next>>
vars == <<next_proc_id, dead, parent, waiting, childVars, exitVars>>

Init ==
    /\ next_proc_id = 2
    /\ dead = {}
    /\ parent = [p \in Proc |-> NULL]
    /\ waiting = {}
    /\ children_head = [p \in Proc |-> NULL]
    /\ children_tail = [p \in Proc |-> NULL]
    /\ next_sibling = [p \in Proc |-> NULL]
    /\ prev_sibling = [p \in Proc |-> NULL]
    /\ exited_children_head = [p \in Proc |-> NULL]
    /\ exited_children_tail = [p \in Proc |-> NULL]
    /\ heap = {}
    /\ record = [i \in Item |-> [pid |-> init, status |-> 0]]
    /\ next = [i \in Item |-> NULL]

Live == (init .. next_proc_id - 1) \ dead

\* The list from h on, up to NULL.
List(link, h) ==
    LET n == Cardinality(DOMAIN link)
        cell[k \in 1 .. n] ==
            IF k = 1 THEN h
            ELSE IF cell[k - 1] = NULL THEN NULL ELSE link[cell[k - 1]]
    IN  [k \in 1 .. Cardinality({k \in 1 .. n : cell[k] # NULL}) |-> cell[k]]

Children(p) == List(next_sibling, children_head[p])
Exited(p) == List(next, exited_children_head[p])

-----------------------------------------------------------------------------
ForkFunc(p) ==
    LET c == next_proc_id
        t == children_tail[p]
        first == children_head[p] = NULL
    IN  /\ c <= MaxPid
        /\ next_proc_id' = c + 1
        /\ parent' = [parent EXCEPT ![c] = p]
        /\ prev_sibling' = [prev_sibling EXCEPT ![c] = t]
        /\ children_head' = IF first THEN [children_head EXCEPT ![p] = c]
                                     ELSE children_head
        /\ next_sibling' = IF first THEN next_sibling
                                    ELSE [next_sibling EXCEPT ![t] = c]
        /\ children_tail' = [children_tail EXCEPT ![p] = c]
        /\ UNCHANGED <<dead, waiting, exitVars>>

\* Mutated form of RemoveChildFromParent: the case of the tail is missing.
RemoveChildNoTail(c, q) ==
    LET nx == next_sibling[c]
        pv == prev_sibling[c]
    IN  \/ /\ children_head[q] = c /\ children_tail[q] = c
           /\ children_head' = [children_head EXCEPT ![q] = NULL]
           /\ children_tail' = [children_tail EXCEPT ![q] = NULL]
           /\ UNCHANGED <<next_sibling, prev_sibling>>
        \/ /\ children_head[q] = c /\ children_tail[q] # c
           /\ children_head' = [children_head EXCEPT ![q] = nx]
           /\ prev_sibling' = [prev_sibling EXCEPT ![nx] = NULL]
           /\ UNCHANGED <<next_sibling, children_tail>>
        \/ /\ children_head[q] # c
           /\ next_sibling' = [next_sibling EXCEPT ![pv] = nx]
           /\ prev_sibling' = [x \in Proc |-> IF x = nx THEN pv
                                              ELSE prev_sibling[x]]
           /\ UNCHANGED <<children_head, children_tail>>

\* The only child, the first, the last, and one between others.
RemoveChildFromParent(c, q) ==
    LET nx == next_sibling[c]
        pv == prev_sibling[c]
    IN  \/ /\ children_head[q] = c /\ children_tail[q] = c
           /\ children_head' = [children_head EXCEPT ![q] = NULL]
           /\ children_tail' = [children_tail EXCEPT ![q] = NULL]
           /\ next_sibling' = [next_sibling EXCEPT ![c] = NULL]
           /\ prev_sibling' = [prev_sibling EXCEPT ![c] = NULL]
        \/ /\ children_head[q] = c /\ children_tail[q] # c
           /\ children_head' = [children_head EXCEPT ![q] = nx]
           /\ prev_sibling' = [prev_sibling EXCEPT ![nx] = NULL]
           /\ UNCHANGED <<next_sibling, children_tail>>
        \/ /\ children_head[q] # c /\ children_tail[q] = c
           /\ children_tail' = [children_tail EXCEPT ![q] = pv]
           /\ next_sibling' = [next_sibling EXCEPT ![pv] = NULL]
           /\ UNCHANGED <<prev_sibling, children_head>>
        \/ /\ children_head[q] # c /\ children_tail[q] # c
           /\ next_sibling' = [next_sibling EXCEPT ![pv] = nx]
           /\ prev_sibling' = [prev_sibling EXCEPT ![nx] = pv]
           /\ UNCHANGED <<children_head, children_tail>>

\* Mutated form of PushExitToExited: the tail is not moved.
PushExitKeepsTail(i, r, q) ==
    LET t == exited_children_tail[q]
        first == exited_children_head[q] = NULL
    IN  /\ heap' = heap \cup {i}
        /\ record' = [record EXCEPT ![i] = r]
        /\ next' = IF first THEN [next EXCEPT ![i] = NULL]
                   ELSE [next EXCEPT ![i] = NULL, ![t] = i]
        /\ exited_children_head' =
               IF first THEN [exited_children_head EXCEPT ![q] = i]
               ELSE exited_children_head
        /\ exited_children_tail' =
               IF first THEN [exited_children_tail EXCEPT ![q] = i]
               ELSE exited_children_tail

\* Record r in item i goes to the end of the list of q.  The prev field of an
\* exit record is never read.
PushExitToExited(i, r, q) ==
    LET t == exited_children_tail[q]
        first == exited_children_head[q] = NULL
    IN  /\ heap' = heap \cup {i}
        /\ record' = [record EXCEPT ![i] = r]
        /\ next' = IF first THEN [next EXCEPT ![i] = NULL]
                   ELSE [next EXCEPT ![i] = NULL, ![t] = i]
        /\ exited_children_head' =
               IF first THEN [exited_children_head EXCEPT ![q] = i]
               ELSE exited_children_head
        /\ exited_children_tail' = [exited_children_tail EXCEPT ![q] = i]

\* The children of p become orphans; p leaves the list of its parent, which
\* gets a record and stops waiting.  The search for p in that list finds it
\* (ChildrenLinked).
ExitFunc(p, s) ==
    LET q == parent[p]
        kids == ToSet(Children(p))
    IN  /\ dead' = dead \cup {p}
        /\ parent' = [c \in Proc |-> IF c \in kids THEN NULL ELSE parent[c]]
        /\ waiting' = waiting \ {q}
        /\ UNCHANGED next_proc_id
        /\ \/ q = NULL /\ UNCHANGED <<childVars, exitVars>>
           \/ /\ q # NULL
              /\ RemoveChildFromParent(p, q)
              /\ \E i \in Item \ heap :
                    PushExitToExited(i, [pid |-> p, status |-> s], q)

\* Mutated form of RemoveHeadFromExitQueue: the item freed is the tail.
RemoveHeadFreesTail(p) ==
    LET h == exited_children_head[p]
    IN  /\ h # exited_children_tail[p]
        /\ exited_children_head' = [exited_children_head EXCEPT ![p] = next[h]]
        /\ heap' = heap \ {exited_children_tail[p]}
        /\ UNCHANGED <<exited_children_tail, record, next>>

\* With one record in the list the code goes on to write through NULL, and the
\* machine stops.
RemoveHeadFromExitQueue(p) ==
    LET h == exited_children_head[p]
    IN  /\ h # exited_children_tail[p]
        /\ exited_children_head' = [exited_children_head EXCEPT ![p] = next[h]]
        /\ heap' = heap \ {h}
        /\ UNCHANGED <<exited_children_tail, record, next>>

\* Mutated form of WaitFunc: the test for a child is missing.
WaitWithoutChild(p) ==
    \/ /\ exited_children_head[p] = NULL
       /\ waiting' = waiting \cup {p}
       /\ UNCHANGED <<next_proc_id, dead, parent, childVars, exitVars>>
    \/ /\ exited_children_head[p] # NULL
       /\ RemoveHeadFromExitQueue(p)
       /\ UNCHANGED <<next_proc_id, dead, parent, waiting, childVars>>

\* Wait blocks, returns ERROR (and changes nothing), or collects.  After the
\* next exit of a child it collects as well.
WaitFunc(p) ==
    \/ /\ exited_children_head[p] = NULL
       /\ children_head[p] # NULL
       /\ waiting' = waiting \cup {p}
       /\ UNCHANGED <<next_proc_id, dead, parent, childVars, exitVars>>
    \/ /\ exited_children_head[p] # NULL
       /\ RemoveHeadFromExitQueue(p)
       /\ UNCHANGED <<next_proc_id, dead, parent, waiting, childVars>>

Next ==
    \E p \in Live \ waiting :
        \/ ForkFunc(p)
        \/ \E s \in ExitStatus : ExitFunc(p, s)
        \/ WaitFunc(p)

Spec == Init /\ [][Next]_vars

-----------------------------------------------------------------------------
(* Properties.                                                              *)

Reachable(p) == {c \in Live : parent[c] = p}

\* The children list of a live process holds exactly the live processes whose
\* parent it is, in the order of the forks, and prev_sibling leads back from
\* its tail, whatever order the children exit in.
ChildrenLinked ==
    \A p \in Live :
        /\ ToSet(Children(p)) = Reachable(p)
        /\ \A i, j \in 1 .. Len(Children(p)) :
              i < j => Children(p)[i] < Children(p)[j]
        /\ List(prev_sibling, children_tail[p]) = Reverse(Children(p))

\* The linked lists keep the promises of Family.tla: a process is an orphan
\* once its parent is gone, and exit records come back in the order of the
\* exits, once each.
F == INSTANCE Family WITH
        live <- Live,
        parent <- [p \in Proc |-> IF p \in Live THEN parent[p] ELSE NULL],
        records <- [p \in Proc |-> [k \in 1 .. Len(Exited(p)) |->
                                      record[Exited(p)[k]]]],
        blocked <- waiting
FamilyListsSpec == F!Spec

\* As long as a process is alive, one of them is not blocked: Wait blocks only
\* for a child that the lists lead to, so no family waits in a circle or for
\* children that are gone.
WaitsEnd == F!SomeoneRunnable

\* A process leaves at most one exit record, on one list, and only after it has
\* exited: Wait never reports a child twice, nor one that still runs, although
\* records are freed and used again.
ReportedOnce ==
    LET listed == UNION {{p} \X ToSet(Exited(p)) : p \in Live}
    IN  /\ \A p \in Live : IsInjective(Exited(p))
        /\ \A x, y \in listed :
              /\ record[x[2]].pid \in dead
              /\ record[x[2]].pid = record[y[2]].pid => x = y
=============================================================================
