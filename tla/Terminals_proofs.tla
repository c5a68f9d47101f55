--------------------------- MODULE Terminals_proofs ---------------------------
(***************************************************************************)
(* Proofs about Terminals.tla, for any number of terminals and of lines:   *)
(* no line is sent twice, and what holds of the processes without the      *)
(* terminals holds with them.                                              *)
(***************************************************************************)
EXTENDS Terminals, Scheduling_proofs

-----------------------------------------------------------------------------
(* What Terminals.tla adds to a step of the processes is the receive        *)
(* interrupt, which may leave what the C program defines.                   *)

LEMMA StepOfProcesses ==
    ASSUME [TermNext]_tvars
    PROVE  [Next]_vars \/ Crash("undefined")
<1>1. ASSUME NEW t \in Tty, TtyWrite(t)
      PROVE  Next
    BY <1>1 DEF TtyWrite, Next
<1>2. ASSUME NEW t \in Tty, TtyTransmit(t)
      PROVE  Next
    BY <1>2 DEF TtyTransmit, Next
<1>3. ASSUME NEW t \in Tty, TrapTTYReceiveHandler(t)
      PROVE  UNCHANGED vars \/ Crash("undefined")
    BY <1>3 DEF TrapTTYReceiveHandler
<1>4. ASSUME NEW t \in Tty, TtyRead(t)
      PROVE  Next
    BY <1>4 DEF TtyRead, Next
<1>5. CASE Elsewhere
    BY <1>5 DEF Elsewhere, Next
<1>6. CASE UNCHANGED tvars
    BY <1>6 DEF tvars
<1> QED
    BY <1>1, <1>2, <1>3, <1>4, <1>5, <1>6 DEF TermNext

LEMMA StopKeepsIInv ==
    ASSUME IInv, NEW m \in Stops, Crash(m)
    PROVE  IInv'
<1>1. SchedOK' /\ FamilyPart'
    BY FamilyUnchanged DEF IInv, SchedOK, Crash, Created
<1> QED
    BY <1>1, CrashType DEF IInv

\* With terminals, programs that write, read and are typed at, the families, the
\* wake-ups, the idle process and the suspended processes are in order.
THEOREM ProcessesWithTerminals ==
    TermSpec => [](FamilyInv /\ NoLostWakeup /\ IdleInv /\ SuspendedAccounted)
<1> DEFINE I == IInv /\ SuspendedAccounted
<1>1. ASSUME TermInit
      PROVE  Init
    BY <1>1 DEF TermInit
<1>2. ASSUME Init
      PROVE  I
    BY <1>2, IInvInit, AccountedInit
<1>3. ASSUME I, [TermNext]_tvars
      PROVE  I'
  <2>1. CASE [Next]_vars
      BY <1>3, <2>1, IInvStep, AccountedStep DEF IInv
  <2>2. CASE Crash("undefined")
      BY <1>3, <2>2, StopKeepsIInv, StopAccounted DEF Stops
  <2> QED
      BY <1>3, <2>1, <2>2, StepOfProcesses
<1>4. I => FamilyInv /\ NoLostWakeup /\ IdleInv /\ SuspendedAccounted
    BY DEF IInv, FamilyPart, SchedOK, IdleInv, OnQueue
<1> QED
    BY <1>1, <1>2, <1>3, <1>4, PTL DEF TermSpec

-----------------------------------------------------------------------------
(* SentOnce.  It is kept because no line ever enters write_out: the two     *)
(* helpers that add to it change a copy of the list head.  The inductive    *)
(* form tells lines apart by their places on the wires.                     *)

Line == [line : Nat, writer : Proc]

\* Lines are numbered as they are written, so that the next number is new.
WireOK ==
    /\ written \in Nat
    /\ write_out = [t \in Tty |-> <<>>]
    /\ wire \in [Tty -> Seq(Line)]
    /\ \A n \in sent : n \in Nat /\ n <= written
    /\ \A t \in Tty : \A k \in 1 .. Len(wire[t]) :
           wire[t][k].line <= written /\ wire[t][k].line \notin sent
    /\ \A t, u \in Tty : \A k \in 1 .. Len(wire[t]), m \in 1 .. Len(wire[u]) :
           wire[t][k].line = wire[u][m].line => t = u /\ k = m

LEMMA WriteWire ==
    ASSUME TypeOK, WireOK, NEW t \in Tty, TtyWrite(t)
    PROVE  WireOK'
<1> DEFINE line == [line |-> written + 1, writer |-> curr_proc]
<1>1. /\ written' = written + 1 /\ sent' = sent
      /\ wire' = [wire EXCEPT ![t] = Append(@, line)]
      /\ write_out' = [write_out EXCEPT ![t] = AddTail(@, line)]
    BY DEF TtyWrite
<1>2. /\ written \in Nat /\ wire \in [Tty -> Seq(Line)]
      /\ line \in Line /\ line.line = written + 1
  <2>1. written \in Nat /\ wire \in [Tty -> Seq(Line)]
      BY DEF WireOK
  <2>2. curr_proc \in Proc /\ written + 1 \in Nat
      BY <2>1 DEF TypeOK
  <2>3. line \in [line : Nat, writer : Proc]
      BY <2>2
  <2>4. line.line = written + 1
      OBVIOUS
  <2> QED
      BY <2>1, <2>3, <2>4 DEF Line
<1> HIDE DEF line
<1>3. write_out' = [u \in Tty |-> <<>>]
    BY <1>1 DEF WireOK, AddTail
<1>4. wire' \in [Tty -> Seq(Line)]
    BY <1>1, <1>2
<1>5. \A u \in Tty : u # t => wire'[u] = wire[u]
    BY <1>1, <1>2
<1>6. /\ wire'[t] = Append(wire[t], line)
      /\ wire[t] \in Seq(Line)
    BY <1>1, <1>2
<1>7. /\ Len(wire'[t]) = Len(wire[t]) + 1
      /\ \A k \in 1 .. Len(wire[t]) : wire'[t][k] = wire[t][k]
      /\ wire'[t][Len(wire[t]) + 1] = line
      /\ Len(wire[t]) \in Nat
    BY <1>2, <1>6
\* Every place on a wire is an old one or holds the new line.
<1>8. ASSUME NEW u \in Tty, NEW k \in 1 .. Len(wire'[u])
      PROVE  \/ k \in 1 .. Len(wire[u]) /\ wire'[u][k] = wire[u][k]
             \/ u = t /\ k = Len(wire[t]) + 1 /\ wire'[u][k] = line
    BY <1>5, <1>7
<1>9. \A u \in Tty : \A k \in 1 .. Len(wire[u]) :
          wire[u][k].line <= written /\ wire[u][k].line \in Nat
                                     /\ wire[u][k].line \notin sent
  <2>1. \A u \in Tty : \A k \in 1 .. Len(wire[u]) : wire[u][k] \in Line
      BY <1>2
  <2> QED
      BY <2>1 DEF WireOK, Line
<1>10. written + 1 \notin sent /\ \A n \in sent : n \in Nat /\ n <= written + 1
    BY <1>2 DEF WireOK
<1>11. ASSUME NEW u \in Tty, NEW k \in 1 .. Len(wire'[u])
       PROVE  wire'[u][k].line <= written' /\ wire'[u][k].line \notin sent'
    BY <1>1, <1>2, <1>8, <1>9, <1>10
<1>12. ASSUME NEW u \in Tty, NEW v \in Tty,
              NEW k \in 1 .. Len(wire'[u]), NEW m \in 1 .. Len(wire'[v]),
              wire'[u][k].line = wire'[v][m].line
       PROVE  u = v /\ k = m
  <2>1. CASE k \in 1 .. Len(wire[u]) /\ wire'[u][k] = wire[u][k]
    <3>0. wire[u][k].line <= written /\ wire[u][k].line \in Nat
        BY <1>9, <2>1
    <3>1. m \in 1 .. Len(wire[v]) /\ wire'[v][m] = wire[v][m]
      <4>1. CASE wire'[v][m] = line
        <5>1. wire[u][k].line = written + 1
            BY <1>2, <1>12, <2>1, <4>1
        <5> QED
            BY <1>2, <3>0, <5>1
      <4> QED
          BY <1>8, <4>1
    <3> QED
        BY <1>12, <2>1, <3>1 DEF WireOK
  <2>2. CASE u = t /\ k = Len(wire[t]) + 1 /\ wire'[u][k] = line
    <3>1. CASE m \in 1 .. Len(wire[v]) /\ wire'[v][m] = wire[v][m]
      <4>1. wire[v][m].line <= written /\ wire[v][m].line \in Nat
          BY <1>9, <3>1
      <4>2. wire[v][m].line = written + 1
          BY <1>2, <1>12, <2>2, <3>1
      <4> QED
          BY <1>2, <4>1, <4>2
    <3> QED
        BY <1>8, <2>2, <3>1
  <2> QED
      BY <1>8, <2>1, <2>2
<1>13. written' \in Nat
    BY <1>1, <1>2
<1> QED
    BY <1>1, <1>3, <1>4, <1>10, <1>11, <1>12, <1>13 DEF WireOK

LEMMA TransmitWire ==
    ASSUME WireOK, NEW t \in Tty, TtyTransmit(t)
    PROVE  WireOK'
<1>1. /\ wire[t] # <<>> /\ wire[t] \in Seq(Line)
      /\ wire \in [Tty -> Seq(Line)]
      /\ written' = written /\ write_out' = write_out
      /\ sent' = sent \cup {Head(wire[t]).line}
    BY DEF WireOK, TtyTransmit
<1>2. wire' = [wire EXCEPT ![t] = Tail(@)]
    BY DEF WireOK, TtyTransmit
<1>3. /\ Len(Tail(wire[t])) = Len(wire[t]) - 1
      /\ \A k \in 1 .. Len(Tail(wire[t])) : Tail(wire[t])[k] = wire[t][k + 1]
      /\ Head(wire[t]) = wire[t][1]
      /\ Len(wire[t]) \in Nat
      /\ Tail(wire[t]) \in Seq(Line)
      /\ 1 \in 1 .. Len(wire[t])
    BY <1>1
<1>4. \A k \in 1 .. Len(Tail(wire[t])) : k + 1 \in 1 .. Len(wire[t])
    BY <1>3
<1>5. wire' \in [Tty -> Seq(Line)]
    BY <1>1, <1>2, <1>3
\* Every place on a wire was a place before, and not the first of t.
<1>6. ASSUME NEW u \in Tty, NEW k \in 1 .. Len(wire'[u])
      PROVE  \/ /\ u # t /\ k \in 1 .. Len(wire[u])
                /\ wire'[u][k] = wire[u][k]
             \/ /\ u = t /\ k + 1 \in 1 .. Len(wire[t]) /\ k + 1 # 1
                /\ wire'[u][k] = wire[t][k + 1]
    BY <1>1, <1>2, <1>3, <1>4
<1>7. /\ \A u \in Tty : \A k \in 1 .. Len(wire[u]) :
             wire[u][k].line <= written /\ wire[u][k].line \notin sent
      /\ \A u, v \in Tty : \A k \in 1 .. Len(wire[u]), m \in 1 .. Len(wire[v]) :
             wire[u][k].line = wire[v][m].line => u = v /\ k = m
      /\ \A n \in sent : n \in Nat /\ n <= written
    BY DEF WireOK
<1>8. ASSUME NEW u \in Tty, NEW k \in 1 .. Len(wire'[u])
      PROVE  wire'[u][k].line <= written' /\ wire'[u][k].line \notin sent'
  <2>1. CASE u # t /\ k \in 1 .. Len(wire[u]) /\ wire'[u][k] = wire[u][k]
    <3>1. wire[u][k].line # wire[t][1].line
        BY <1>3, <1>7, <2>1
    <3> QED
        BY <1>1, <1>3, <1>7, <2>1, <3>1
  <2>2. CASE /\ u = t /\ k + 1 \in 1 .. Len(wire[t]) /\ k + 1 # 1
             /\ wire'[u][k] = wire[t][k + 1]
    <3>1. wire[t][k + 1].line # wire[t][1].line
        BY <1>3, <1>7, <2>2
    <3> QED
        BY <1>1, <1>3, <1>7, <2>2, <3>1
  <2> QED
      BY <1>6, <2>1, <2>2
<1>9. ASSUME NEW u \in Tty, NEW v \in Tty,
             NEW k \in 1 .. Len(wire'[u]), NEW m \in 1 .. Len(wire'[v]),
             wire'[u][k].line = wire'[v][m].line
      PROVE  u = v /\ k = m
  <2>1. k \in Int /\ m \in Int
      BY <1>5
  <2>2. CASE u # t
    <3>1. k \in 1 .. Len(wire[u]) /\ wire'[u][k] = wire[u][k]
        BY <1>6, <2>2
    <3>2. CASE v # t /\ m \in 1 .. Len(wire[v]) /\ wire'[v][m] = wire[v][m]
        BY <1>7, <1>9, <3>1, <3>2
    <3>3. CASE /\ v = t /\ m + 1 \in 1 .. Len(wire[t])
               /\ wire'[v][m] = wire[t][m + 1]
        BY <1>7, <1>9, <2>2, <3>1, <3>3
    <3> QED
        BY <1>6, <3>2, <3>3
  <2>3. CASE u = t
    <3>0. k + 1 \in 1 .. Len(wire[t]) /\ wire'[u][k] = wire[t][k + 1]
        BY <1>6, <2>3
    <3>1. v = t
      <4>1. CASE v # t
        <5>1. m \in 1 .. Len(wire[v]) /\ wire'[v][m] = wire[v][m]
            BY <1>6, <4>1
        <5> QED
            BY <1>7, <1>9, <3>0, <5>1
      <4> QED
          BY <4>1
    <3>2. /\ k + 1 \in 1 .. Len(wire[t]) /\ wire'[u][k] = wire[t][k + 1]
          /\ m + 1 \in 1 .. Len(wire[t]) /\ wire'[v][m] = wire[t][m + 1]
        BY <1>6, <2>3, <3>1
    <3>3. k + 1 = m + 1
        BY <1>7, <1>9, <3>2
    <3> QED
        BY <2>1, <2>3, <3>1, <3>3
  <2> QED
      BY <2>2, <2>3
<1>10. \A n \in sent' : n \in Nat /\ n <= written
  <2>1. wire[t][1] \in Line
      BY <1>1, <1>3
  <2>2. wire[t][1].line \in Nat /\ wire[t][1].line <= written
      BY <1>3, <1>7, <2>1 DEF Line
  <2> QED
      BY <1>1, <1>3, <1>7, <2>2
<1> QED
    BY <1>1, <1>5, <1>8, <1>9, <1>10 DEF WireOK

LEMMA WireStep ==
    ASSUME TypeOK, WireOK, [TermNext]_tvars
    PROVE  WireOK'
<1>1. ASSUME UNCHANGED <<write_out, wire, written, sent>>
      PROVE  WireOK'
    BY <1>1 DEF WireOK
<1>2. ASSUME NEW t \in Tty, TtyWrite(t)
      PROVE  WireOK'
    BY <1>2, WriteWire
<1>3. ASSUME NEW t \in Tty, TtyTransmit(t)
      PROVE  WireOK'
    BY <1>3, TransmitWire
<1>4. ASSUME NEW t \in Tty, TrapTTYReceiveHandler(t) \/ TtyRead(t)
      PROVE  WireOK'
    BY <1>1, <1>4 DEF TrapTTYReceiveHandler, TtyRead
<1>5. CASE Elsewhere \/ UNCHANGED tvars
    BY <1>1, <1>5 DEF Elsewhere, tvars, termVars
<1> QED
    BY <1>2, <1>3, <1>4, <1>5 DEF TermNext

\* What WireOK says of the sets of lines.
LEMMA WireSets ==
    ASSUME WireOK
    PROVE  SentOnce
<1>1. ASSUME NEW t \in Tty
      PROVE  Cardinality(OnWire(t)) = Len(wire[t])
  <2> DEFINE n == Len(wire[t])
             f == [k \in 1 .. n |-> wire[t][k].line]
  <2>1. n \in Nat
      BY DEF WireOK
  <2>2. f \in Surjection(1 .. n, OnWire(t))
      BY DEF OnWire, Surjection
  <2>3. f \in Injection(1 .. n, OnWire(t))
    <3>1. f \in [1 .. n -> OnWire(t)]
        BY DEF OnWire
    <3>2. \A a, b \in 1 .. n : f[a] = f[b] => a = b
        BY DEF WireOK
    <3> HIDE DEF f, n
    <3> QED
        BY <3>1, <3>2 DEF Injection, IsInjective
  <2>4. IsFiniteSet(1 .. n) /\ Cardinality(1 .. n) = n
      BY <2>1, FS_Interval
  <2> HIDE DEF f, n
  <2>5. Cardinality(OnWire(t)) = Cardinality(1 .. n)
      BY <2>2, <2>3, <2>4, FS_Surjection
  <2> QED
      BY <2>4, <2>5 DEF n
<1>2. ASSUME NEW t \in Tty
      PROVE  OnWire(t) \cap sent = {}
    BY DEF WireOK, OnWire
<1>3. ASSUME NEW t \in Tty, NEW u \in Tty \ {t}
      PROVE  OnWire(t) \cap OnWire(u) = {}
    BY DEF WireOK, OnWire
<1> QED
    BY <1>1, <1>2, <1>3 DEF SentOnce

\* Whatever the programs write, to however many terminals, no line is ever
\* being sent twice, to two terminals, or again after its end was signalled.
THEOREM SentOnceCorrect == TermSpec => []SentOnce
<1>1. ASSUME TermInit
      PROVE  TypeOK /\ WireOK
  <2>1. TypeOK
      BY <1>1, IInvInit DEF TermInit, IInv
  <2>2. WireOK
      BY <1>1 DEF TermInit, WireOK
  <2> QED
      BY <2>1, <2>2
<1>2. ASSUME TypeOK, WireOK, [TermNext]_tvars
      PROVE  TypeOK' /\ WireOK'
  <2>1. TypeOK'
      BY <1>2, StepOfProcesses, TypeStep, CrashType DEF Stops
  <2> QED
      BY <1>2, <2>1, WireStep
<1> QED
    BY <1>1, <1>2, WireSets, PTL DEF TermSpec

=============================================================================
