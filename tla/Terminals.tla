------------------------------ MODULE Terminals ------------------------------
(***************************************************************************)
(* The terminals: the lists of struct term, and the lines that the         *)
(* hardware is sending.  Each terminal action of Processes.tla is joined   *)
(* with what the same code does to the terminal; the receive interrupt,    *)
(* which changes no process, is added.                                     *)
(*                                                                         *)
(* Lines are numbered in the order of the TtyWrite calls.  mutex is only   *)
(* ever assigned 1, so every TtyWrite starts a transmission at once.       *)
(***************************************************************************)
EXTENDS Processes

CONSTANTS
    Tty,         \* the terminals
    MaxLines     \* bound: lines written, and lines typed

ASSUME TerminalsAssumption == MaxLines \in Nat

VARIABLES
    read_in, write_out,        \* the lists of lines of each terminal
    read_queue, write_queue,   \* its lists of processes
    wire,                      \* the lines that its hardware is sending
    written,                   \* the number of lines written so far
    sent,                      \* the lines whose end has been signalled
    typed                      \* the number of lines typed

termVars == <<read_in, write_out, read_queue, write_queue, wire, written,
              sent, typed>>
tvars == <<vars, termVars>>

TermInit ==
    /\ Init
    /\ read_in = [t \in Tty |-> <<>>]
    /\ write_out = [t \in Tty |-> <<>>]
    /\ read_queue = [t \in Tty |-> <<>>]
    /\ write_queue = [t \in Tty |-> <<>>]
    /\ wire = [t \in Tty |-> <<>>]
    /\ written = 0
    /\ sent = {}
    /\ typed = 0

\* Mutated form of AddTail: the head of the list is passed by reference.
AddTailByReference(list, new) == Append(list, new)

\* addToLineTail and addToProcTail get a copy of the head of the list, and
\* TtyReceiveFunc a copy of the terminal: an empty list stays empty.
AddTail(list, new) == IF list = <<>> THEN list ELSE Append(list, new)

-----------------------------------------------------------------------------
TtyWrite(t) ==
    LET line == [line |-> written + 1, writer |-> curr_proc]
    IN  /\ written < MaxLines
        /\ TtyWriteFunc
        /\ written' = written + 1
        /\ write_out' = [write_out EXCEPT ![t] = AddTail(@, line)]
        /\ write_queue' = [write_queue EXCEPT ![t] = AddTail(@, curr_proc)]
        /\ wire' = [wire EXCEPT ![t] = Append(@, line)]
        /\ UNCHANGED <<read_in, read_queue, sent, typed>>

\* The hardware has sent a line.  TtyTransmitFunc transmits the first line of
\* write_out, if there is one, and leaves it there.
TtyTransmit(t) ==
    /\ wire[t] # <<>>
    /\ TrapTTYTransmitHandler
    /\ sent' = sent \cup {Head(wire[t]).line}
    /\ wire' = [wire EXCEPT ![t] = IF write_out[t] = <<>> THEN Tail(@)
                                   ELSE Append(Tail(@), Head(write_out[t]))]
    /\ UNCHANGED <<read_in, write_out, read_queue, write_queue, written, typed>>

\* A line is typed.  It is received into the variable new_line itself: a line
\* longer than a pointer overwrites the kernel stack.
TrapTTYReceiveHandler(t) ==
    /\ kmode = "user"
    /\ typed < MaxLines
    /\ typed' = typed + 1
    /\ read_in' = [read_in EXCEPT ![t] = AddTail(@, typed + 1)]
    /\ UNCHANGED vars \/ Crash("undefined")
    /\ UNCHANGED <<write_out, read_queue, write_queue, wire, written, sent>>

TtyRead(t) ==
    /\ TtyReadFunc
    /\ read_queue' = [read_queue EXCEPT ![t] = Append(@, curr_proc)]
    /\ UNCHANGED <<read_in, write_out, write_queue, wire, written, sent, typed>>

\* What the kernel does without the terminals.
Elsewhere ==
    /\ \/ ForkFunc \/ ForkUnmapped
       \/ \E s \in Status : Exit(s)
       \/ TrapIllegalHandler \/ TrapMathHandler \/ TrapMemoryHandler
       \/ WaitFunc
       \/ \E n \in 1 .. MaxDelay : DelayFunc(n)
       \/ TrapClockHandler
       \/ Resume
       \/ Stopped
    /\ UNCHANGED termVars

TermNext ==
    \/ \E t \in Tty : \/ TtyWrite(t)
                      \/ TtyTransmit(t)
                      \/ TrapTTYReceiveHandler(t)
                      \/ TtyRead(t)
    \/ Elsewhere

TermSpec == TermInit /\ [][TermNext]_tvars

-----------------------------------------------------------------------------
(* Properties.                                                              *)

OnWire(t) == {wire[t][k].line : k \in 1 .. Len(wire[t])}

\* A line is sent once, to one terminal: TtyTransmitFunc, which removes nothing
\* from write_out, never sends a line again.
SentOnce ==
    \A t \in Tty :
        /\ Cardinality(OnWire(t)) = Len(wire[t])
        /\ OnWire(t) \cap sent = {}
        /\ \A u \in Tty \ {t} : OnWire(t) \cap OnWire(u) = {}
=============================================================================
