------------------------------- MODULE Family -------------------------------
(***************************************************************************)
(* What Fork, Exit and Wait promise to the programs, without queues,       *)
(* contexts or a scheduler: a tree of processes in which the death of a    *)
(* parent orphans its children, and in which the exit records of the       *)
(* children reach their parent once, in the order of the exits.            *)
(*                                                                         *)
(* Every step is taken by a process that is alive and not blocked in Wait. *)
(* Processes.tla is shown to implement this specification.                 *)
(***************************************************************************)
EXTENDS Integers, Sequences

CONSTANTS
    MaxPid,        \* bound: the highest process_id that Fork hands out
    ExitStatus     \* the statuses that exit records carry

Proc == 0 .. MaxPid
init == 1
NULL == -1

VARIABLES
    next_proc_id,  \* the process_id of the next child
    live,          \* processes created and not terminated
    parent,        \* the live parent of a live process, or NULL
    records,       \* exit records not yet collected, oldest first
    blocked        \* processes blocked in Wait

vars == <<next_proc_id, live, parent, records, blocked>>

Init ==
    /\ next_proc_id = 2
    /\ live = {init}
    /\ parent = [p \in Proc |-> NULL]
    /\ records = [p \in Proc |-> <<>>]
    /\ blocked = {}

Runnable == live \ blocked

Fork(p) ==
    /\ next_proc_id <= MaxPid
    /\ next_proc_id' = next_proc_id + 1
    /\ live' = live \cup {next_proc_id}
    /\ parent' = [parent EXCEPT ![next_proc_id] = p]
    /\ UNCHANGED <<records, blocked>>

\* The children of p become orphans; the record of p goes to its parent, which
\* stops waiting.
Terminate(p, status) ==
    /\ live' = live \ {p}
    /\ parent' = [c \in Proc |-> IF c = p \/ parent[c] = p THEN NULL
                                                           ELSE parent[c]]
    /\ records' =
           IF parent[p] = NULL THEN records
           ELSE [records EXCEPT
                    ![parent[p]] = Append(@, [pid |-> p, status |-> status])]
    /\ blocked' = blocked \ {parent[p]}
    /\ UNCHANGED next_proc_id

Block(p) ==
    /\ records[p] = <<>>
    /\ \E c \in live : parent[c] = p
    /\ blocked' = blocked \cup {p}
    /\ UNCHANGED <<next_proc_id, live, parent, records>>

Collect(p) ==
    /\ records[p] # <<>>
    /\ records' = [records EXCEPT ![p] = Tail(@)]
    /\ UNCHANGED <<next_proc_id, live, parent, blocked>>

Next ==
    \E p \in Runnable :
        \/ Fork(p)
        \/ \E s \in ExitStatus : Terminate(p, s)
        \/ Block(p)
        \/ Collect(p)

Spec == Init /\ [][Next]_vars

-----------------------------------------------------------------------------
\* As long as a process is alive, some live process is not blocked in Wait:
\* processes that wait for their children never wait for each other in a
\* circle, nor for children that are gone.
SomeoneRunnable == live # {} => Runnable # {}
=============================================================================
