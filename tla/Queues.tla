------------------------------- MODULE Queues -------------------------------
(***************************************************************************)
(* What the ready queue and the waiting queue promise: two sequences of    *)
(* processes.  Processes.tla uses them as such; Lists.tla shows that the   *)
(* linked lists of sharedvar.c implement them.                             *)
(***************************************************************************)
EXTENDS Naturals, Sequences, FiniteSets, SequencesExt

CONSTANT Proc           \* the processes that are queued

VARIABLES ready, delayed

Init == ready = <<>> /\ delayed = <<>>

\* A process becomes ready.
Push(p) == ready' = Append(ready, p) /\ UNCHANGED delayed

\* The process that has been ready longest is taken.
Pop == ready # <<>> /\ ready' = Tail(ready) /\ UNCHANGED delayed

\* The same, and process p, which was running, becomes ready.
Rotate(p) ==
    /\ ready # <<>>
    /\ ready' = Append(Tail(ready), p)
    /\ UNCHANGED delayed

\* Every item of p is taken out of the ready queue; the others keep their order.
Withdraw(p) ==
    LET kept == {i \in 1 .. Len(ready) : ready[i] # p}
        place(i) == Cardinality({j \in kept : j <= i})
    IN  /\ Len(ready') = Cardinality(kept)
        /\ \A i \in kept : ready'[place(i)] = ready[i]
        /\ UNCHANGED delayed

\* A process starts a delay.
Delay(p) == delayed' = Append(delayed, p) /\ UNCHANGED ready

\* The delay at position i ends.
Wake(i) == delayed' = RemoveAt(delayed, i) /\ UNCHANGED ready

Next ==
    \/ \E p \in Proc : Push(p) \/ Rotate(p) \/ Withdraw(p) \/ Delay(p)
    \/ Pop
    \/ \E i \in 1 .. Len(delayed) : Wake(i)

Spec == Init /\ [][Next]_<<ready, delayed>>
=============================================================================
