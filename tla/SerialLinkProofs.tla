-------------------------- MODULE SerialLinkProofs --------------------------
(***************************************************************************)
(* Proofs about SerialLink, for any number of commands, attempts, losses   *)
(* and reports and an ack queue of any size: what time-outs leave behind,  *)
(* and how soon a loss is noticed.                                         *)
(***************************************************************************)
EXTENDS SerialLink, SequenceTheorems, FiniteSetTheorems, TLAPS

Lines == Cmd \cup {Other}

-----------------------------------------------------------------------------
(* Counting the answers in a sequence of lines.                            *)

\* The places of answers are finitely many.
LEMMA AcksType ==
  ASSUME NEW s \in Seq(Lines)
  PROVE  /\ IsFiniteSet({k \in DOMAIN s : s[k] # Other}) /\ Acks(s) \in Nat
<1>1. DOMAIN s = 1..Len(s) /\ Len(s) \in Nat
  BY LenProperties
<1>2. IsFiniteSet(DOMAIN s)
  BY <1>1, FS_Interval
<1> QED  BY <1>2, FS_Subset, FS_CardinalityType DEF Acks

\* No lines, no answers.
LEMMA AcksEmpty == Acks(<<>>) = 0
<1>1. {k \in DOMAIN <<>> : <<>>[k] # Other} = {}
  BY EmptySeq
<1> QED  BY <1>1, FS_EmptySet DEF Acks

\* A line at the end.
LEMMA AcksAppend ==
  ASSUME NEW s \in Seq(Lines), NEW x \in Lines
  PROVE  /\ Append(s, x) \in Seq(Lines) /\ Acks(s) \in Nat
         /\ x # Other => Acks(Append(s, x)) = Acks(s) + 1
         /\ x = Other => Acks(Append(s, x)) = Acks(s)
<1> DEFINE t == Append(s, x)
           S == {k \in DOMAIN s : s[k] # Other}
           T == {k \in DOMAIN t : t[k] # Other}
<1>1. /\ t \in Seq(Lines) /\ DOMAIN t = 1..(Len(s) + 1) /\ DOMAIN s = 1..Len(s) /\ Len(s) \in Nat
      /\ \A k \in 1..Len(s) : t[k] = s[k]
      /\ t[Len(s) + 1] = x
  BY AppendProperties, LenProperties
<1>2. IsFiniteSet(S) /\ Cardinality(S) = Acks(s) /\ Cardinality(T) = Acks(t) /\ Acks(s) \in Nat
  BY AcksType DEF Acks
<1> HIDE DEF t
<1>3. ASSUME x # Other PROVE Acks(t) = Acks(s) + 1
  <2>1. T = S \cup {Len(s) + 1} /\ Len(s) + 1 \notin S
    BY <1>1, <1>3
  <2>2. Cardinality(S \cup {Len(s) + 1}) = Cardinality(S) + 1
    BY ONLY <1>2, <2>1, FS_AddElement
  <2> QED  BY ONLY <1>2, <2>1, <2>2
<1>4. ASSUME x = Other PROVE Acks(t) = Acks(s)
  <2>1. T = S
    BY <1>1, <1>4
  <2> HIDE DEF S, T
  <2> QED  BY ONLY <1>2, <2>1
<1> QED  BY <1>1, <1>2, <1>3, <1>4 DEF t

\* A line taken off the front.
LEMMA AcksTail ==
  ASSUME NEW s \in Seq(Lines), s # <<>>
  PROVE  /\ Tail(s) \in Seq(Lines) /\ Head(s) \in Lines
         /\ Acks(s) \in Nat /\ Acks(Tail(s)) \in Nat
         /\ Head(s) # Other => Acks(s) = Acks(Tail(s)) + 1
         /\ Head(s) = Other => Acks(s) = Acks(Tail(s))
<1> DEFINE t == Tail(s)
           S == {k \in DOMAIN s : s[k] # Other}
           T == {k \in DOMAIN t : t[k] # Other}
           f == [k \in S \ {1} |-> k - 1]
<1>1. /\ t \in Seq(Lines) /\ Head(s) \in Lines /\ DOMAIN t = 1..(Len(s) - 1) /\ DOMAIN s = 1..Len(s)
      /\ Len(s) \in Nat /\ Len(s) >= 1 /\ Head(s) = s[1]
      /\ \A k \in 1..(Len(s) - 1) : t[k] = s[k + 1]
  BY HeadTailProperties, LenProperties
<1>2. IsFiniteSet(S) /\ Cardinality(S) = Acks(s) /\ Acks(s) \in Nat
      /\ Cardinality(T) = Acks(t) /\ Acks(t) \in Nat
  BY <1>1, AcksType DEF Acks
<1> HIDE DEF t
<1>3. f \in Bijection(S \ {1}, T)
  <2>1. f \in [S \ {1} -> T]
    BY <1>1
  <2>2. \A k \in T : k + 1 \in S \ {1} /\ f[k + 1] = k
    BY <1>1
  <2>3. \A k, m \in S \ {1} : f[k] = f[m] => k = m
    BY <1>1
  <2>4. f \in Surjection(S \ {1}, T) /\ f \in Injection(S \ {1}, T)
    <3> HIDE DEF f
    <3> QED  BY ONLY <2>1, <2>2, <2>3 DEF Surjection, Injection, IsInjective
  <2> QED  BY ONLY <2>4 DEF Bijection
<1>4. /\ IsFiniteSet(S \ {1})
      /\ Cardinality(S \ {1}) = IF 1 \in S THEN Cardinality(S) - 1 ELSE Cardinality(S)
  BY ONLY <1>2, FS_RemoveElement
<1>5. Cardinality(T) = Cardinality(S \ {1})
  BY ONLY <1>3, <1>4, FS_Bijection DEF ExistsBijection
<1>6. 1 \in S <=> Head(s) # Other
  BY <1>1
<1>7. Head(s) # Other => Acks(s) = Acks(t) + 1
  BY ONLY <1>2, <1>4, <1>5, <1>6
<1>8. Head(s) = Other => Acks(s) = Acks(t)
  BY ONLY <1>2, <1>4, <1>5, <1>6
<1> QED  BY <1>1, <1>2, <1>7, <1>8 DEF t

-----------------------------------------------------------------------------
(* The inductive invariant.                                                *)

Sending == {"writing", "reading"}

Shape ==
    /\ connected \in BOOLEAN
    /\ wire \in Seq(Lines) /\ inbox \in Seq(Cmd) /\ ackQ \in Seq(Lines)
    /\ n \in 0..NumCmds /\ (worker \in Sending => n \in Cmd)
    /\ worker \in WorkerPoints
    /\ result \in [Cmd -> Results] /\ (\A m \in Cmd : m > n => result[m] = "none")
    /\ surplus \in Nat /\ lostCmds \in Nat

\* Without a port nothing comes in; a reconnect begins without one.
Severed == /\ ~connected => wire = <<>>
           /\ worker = "reconnecting" => ~connected

Expected == IF worker = "reading" THEN 1 ELSE 0

\* The line in the printer and its answers on the wire are accounted for at any
\* time; those in the ack queue until a reconnect, and again after its flush.
Accounted ==
    /\ Len(inbox) + Acks(wire) <= surplus + Expected
    /\ worker \in Sending \/ (worker = "idle" /\ connected)
            => Len(inbox) + Acks(wire) + Acks(ackQ) <= surplus + Expected

\* No command has failed of a lost connection while there is one, nor the
\* command under way; before a reconnect is tried it is one, with it two.
Failed ==
    /\ connected \/ worker \in {"writing", "reading", "stabilising", "flushing"} => lostCmds = 0
    /\ worker = "idle" => lostCmds <= 1
    /\ lostCmds <= 2

\* The newest line in the printer is that of the command under way.
Newest ==
    /\ worker \in Sending => result[n] = "none"
    /\ worker = "reading" /\ inbox # <<>> => inbox[Len(inbox)] = n

LinkInv == Shape /\ Severed /\ Accounted /\ Failed /\ Newest

-----------------------------------------------------------------------------
(* Sequences.                                                              *)

\* A line taken off the front of those that wait, or put at the end.
LEMMA QueueFacts ==
  ASSUME NEW S, NEW s \in Seq(S)
  PROVE  /\ Len(s) \in Nat
         /\ s # <<>> => /\ Head(s) \in S /\ Tail(s) \in Seq(S) /\ Len(Tail(s)) = Len(s) - 1
                        /\ Len(s) >= 1
                        /\ Tail(s) # <<>> => Tail(s)[Len(Tail(s))] = s[Len(s)]
         /\ \A x \in S : /\ Append(s, x) \in Seq(S) /\ Len(Append(s, x)) = Len(s) + 1
                         /\ Append(s, x)[Len(Append(s, x))] = x
         /\ Len(s) >= 1 => s # <<>>
<1>1. Len(s) \in Nat /\ (Len(s) >= 1 => s # <<>>)
  BY LenProperties, EmptySeq
<1>2. ASSUME s # <<>>
      PROVE  /\ Head(s) \in S /\ Tail(s) \in Seq(S) /\ Len(Tail(s)) = Len(s) - 1
             /\ Len(s) >= 1
             /\ Tail(s) # <<>> => Tail(s)[Len(Tail(s))] = s[Len(s)]
  <2>1. /\ Head(s) \in S /\ Tail(s) \in Seq(S) /\ Len(Tail(s)) = Len(s) - 1 /\ Len(s) >= 1
        /\ \A k \in 1..Len(Tail(s)) : Tail(s)[k] = s[k + 1]
    BY <1>1, <1>2, HeadTailProperties, EmptySeq, LenProperties
  <2>2. ASSUME Tail(s) # <<>> PROVE Tail(s)[Len(Tail(s))] = s[Len(s)]
    <3>1. Len(Tail(s)) \in 1..Len(Tail(s)) /\ Len(Tail(s)) + 1 = Len(s)
      BY <1>1, <2>1, <2>2, EmptySeq
    <3> QED  BY ONLY <2>1, <3>1
  <2> QED  BY <2>1, <2>2
<1>3. \A x \in S : /\ Append(s, x) \in Seq(S) /\ Len(Append(s, x)) = Len(s) + 1
                   /\ Append(s, x)[Len(Append(s, x))] = x
  BY AppendProperties
<1> QED  BY <1>1, <1>2, <1>3

-----------------------------------------------------------------------------
(* The steps of send_command.                                              *)

\* The next command: written, or failed for want of a port.
LEMMA BeginStep ==
  ASSUME LinkInv, Begin
  PROVE  LinkInv'
<1> USE SizesAssumption
<1>1. n + 1 \in Cmd /\ n' = n + 1 /\ result[n + 1] = "none" /\ worker = "idle"
      /\ UNCHANGED <<connected, wire, inbox, ackQ, surplus>>
  BY DEF Begin, LinkInv, Shape, Cmd
<1>2. CASE connected /\ worker' = "writing" /\ UNCHANGED <<result, lostCmds>>
  BY <1>1, <1>2, AcksType DEF LinkInv, Shape, Severed, Accounted, Expected, Failed, Newest, Sending,
     WorkerPoints, Cmd
<1>3. CASE ~connected /\ End(n + 1, "SERIAL", "reconnecting")
  <2>1. /\ result' = [result EXCEPT ![n + 1] = "SERIAL"] /\ worker' = "reconnecting"
        /\ lostCmds' = lostCmds + 1
    BY <1>1, <1>3 DEF End
  <2>2. Shape' /\ Severed' /\ Newest'
    BY <1>1, <1>3, <2>1 DEF LinkInv, Shape, Severed, Newest, Sending, WorkerPoints, Results, Cmd
  <2>3. Accounted' /\ Failed'
    BY <1>1, <1>3, <2>1 DEF LinkInv, Shape, Accounted, Expected, Failed, Sending
  <2> QED  BY <2>2, <2>3 DEF LinkInv
<1> QED  BY <1>1, <1>2, <1>3 DEF Begin

\* A command that ends, or is tried again, and leaves at most as much behind as
\* was counted: the common part of time-outs, failed writes and answers.
LEMMA EndStep ==
  ASSUME LinkInv, worker \in Sending, UNCHANGED n,
         connected' \in BOOLEAN, connected' => connected,
         wire' \in Seq(Lines), inbox' \in Seq(Cmd), ackQ' \in Seq(Lines), surplus' \in Nat,
         ~connected' => wire' = <<>>,
         Len(inbox') + Acks(wire') <= surplus',
         worker' = "writing" \/ connected' => Len(inbox') + Acks(wire') + Acks(ackQ') <= surplus',
         \/ worker' = "writing" /\ UNCHANGED <<result, lostCmds>>
         \/ \E r \in Results : End(n, r, "idle")
  PROVE  LinkInv'
<1>1. n \in Cmd /\ n \in 0..NumCmds /\ lostCmds = 0
  BY DEF LinkInv, Shape, Failed, Sending
<1>2. CASE worker' = "writing" /\ UNCHANGED <<result, lostCmds>>
  BY <1>1, <1>2 DEF LinkInv, Shape, Severed, Accounted, Expected, Failed, Newest, Sending, WorkerPoints
<1>3. ASSUME NEW r \in Results, End(n, r, "idle") PROVE LinkInv'
  <2>1. /\ result' = [result EXCEPT ![n] = r] /\ worker' = "idle" /\ lostCmds' \in {0, 1}
        /\ connected' => lostCmds' = 0
    BY <1>1, <1>3 DEF End
  <2>2. Shape' /\ Severed' /\ Newest'
    BY <1>1, <2>1 DEF LinkInv, Shape, Severed, Newest, Sending, WorkerPoints, Results, Cmd
  <2>3. Accounted' /\ Failed'
    BY <2>1 DEF Accounted, Expected, Failed, Sending
  <2> QED  BY <2>2, <2>3 DEF LinkInv
<1> QED  BY <1>2, <1>3

\* The line reaches the printer.
LEMMA WriteStep ==
  ASSUME LinkInv, Write
  PROVE  LinkInv'
<1>1. /\ worker = "writing" /\ worker' = "reading" /\ inbox' = Append(inbox, n) /\ n \in Cmd
      /\ UNCHANGED <<connected, wire, ackQ, n, result, surplus, lostCmds>>
  BY DEF Write, hist, LinkInv, Shape, Sending
<1>2. inbox' \in Seq(Cmd) /\ Len(inbox') = Len(inbox) + 1 /\ inbox'[Len(inbox')] = n
      /\ Len(inbox) \in Nat
  BY <1>1, QueueFacts DEF LinkInv, Shape
<1>3. Acks(wire) \in Nat /\ Acks(ackQ) \in Nat
  BY AcksType DEF LinkInv, Shape
<1> QED  BY <1>1, <1>2, <1>3 DEF LinkInv, Shape, Severed, Accounted, Expected, Failed, Newest, Sending,
            WorkerPoints

\* It does not, or perhaps.
LEMMA WriteFailsStep ==
  ASSUME LinkInv, WriteFails
  PROVE  LinkInv'
<1>1. /\ worker = "writing" /\ n \in Cmd /\ UNCHANGED <<ackQ, n>>
      /\ inbox \in Seq(Cmd) /\ wire \in Seq(Lines) /\ ackQ \in Seq(Lines) /\ surplus \in Nat
      /\ Len(inbox) + Acks(wire) + Acks(ackQ) <= surplus + 0
  BY DEF WriteFails, LinkInv, Shape, Accounted, Expected, Sending
<1>2. /\ Acks(wire) \in Nat /\ Acks(ackQ) \in Nat
      /\ Len(inbox) \in Nat
      /\ Append(inbox, n) \in Seq(Cmd) /\ Len(Append(inbox, n)) = Len(inbox) + 1
  <2>1. Acks(wire) \in Nat /\ Acks(ackQ) \in Nat
    BY <1>1, AcksType
  <2>2. /\ Len(inbox) \in Nat
        /\ Append(inbox, n) \in Seq(Cmd) /\ Len(Append(inbox, n)) = Len(inbox) + 1
    BY ONLY <1>1, QueueFacts
  <2> QED  BY ONLY <2>1, <2>2
<1>3. /\ connected' = FALSE /\ wire' = <<>>
      /\ \/ UNCHANGED <<inbox, surplus>>
         \/ inbox' = Append(inbox, n) /\ surplus' = surplus + 1
  BY DEF WriteFails, LinkInv, Severed, Shape
<1>4. /\ wire' \in Seq(Lines) /\ inbox' \in Seq(Cmd) /\ surplus' \in Nat
      /\ Len(inbox') + Acks(wire') + Acks(ackQ') <= surplus' /\ Len(inbox') + Acks(wire') <= surplus'
  <2>1. Acks(wire') = 0 /\ wire' \in Seq(Lines)
    BY <1>3, AcksEmpty, EmptySeq
  <2>2. Acks(ackQ') = Acks(ackQ)
    BY <1>1
  <2>3. /\ inbox' \in Seq(Cmd) /\ surplus' \in Nat
        /\ Len(inbox') \in Nat /\ Len(inbox') + Acks(wire) + Acks(ackQ) <= surplus'
    <3>1. CASE UNCHANGED <<inbox, surplus>>
      BY ONLY <1>1, <1>2, <3>1
    <3>2. CASE inbox' = Append(inbox, n) /\ surplus' = surplus + 1
      BY ONLY <1>1, <1>2, <3>2
    <3> QED  BY <1>3, <3>1, <3>2
  <2> QED  BY ONLY <1>1, <1>2, <2>1, <2>2, <2>3
<1>5. \/ worker' = "writing" /\ UNCHANGED <<result, lostCmds>>
      \/ End(n, "UNRESPONSIVE", "idle")
  BY DEF WriteFails, NextAttempt
<1> QED  BY <1>1, <1>2, <1>3, <1>4, <1>5, EndStep DEF Sending, Results

\* The wait is over.
LEMMA TimeOutStep ==
  ASSUME LinkInv, TimeOut
  PROVE  LinkInv'
<1>1. /\ worker = "reading" /\ surplus' = surplus + 1
      /\ UNCHANGED <<connected, wire, inbox, ackQ, n>>
      /\ inbox \in Seq(Cmd) /\ wire \in Seq(Lines) /\ ackQ \in Seq(Lines) /\ surplus \in Nat
      /\ Len(inbox) + Acks(wire) + Acks(ackQ) <= surplus + 1
      /\ Len(inbox) + Acks(wire) <= surplus + 1 /\ connected \in BOOLEAN
      /\ ~connected => wire = <<>>
  BY DEF TimeOut, link, LinkInv, Shape, Severed, Accounted, Expected, Sending
<1>2. \/ worker' = "writing" /\ UNCHANGED <<result, lostCmds>>
      \/ End(n, "UNRESPONSIVE", "idle")
  BY DEF TimeOut, NextAttempt
<1> QED  BY <1>1, <1>2, EndStep DEF Sending, Results

\* A line from the ack queue.
LEMMA TakeLineStep ==
  ASSUME LinkInv, TakeLine
  PROVE  LinkInv'
<1>1. /\ worker = "reading" /\ ackQ # <<>> /\ ackQ' = Tail(ackQ)
      /\ UNCHANGED <<connected, wire, inbox, n, surplus>>
      /\ inbox \in Seq(Cmd) /\ wire \in Seq(Lines) /\ ackQ \in Seq(Lines) /\ surplus \in Nat
      /\ Len(inbox) + Acks(wire) + Acks(ackQ) <= surplus + 1
      /\ connected \in BOOLEAN /\ (~connected => wire = <<>>)
  BY DEF TakeLine, link, LinkInv, Shape, Severed, Accounted, Expected, Sending
<1>2. /\ ackQ' \in Seq(Lines) /\ Acks(ackQ') \in Nat /\ Acks(wire) \in Nat /\ Len(inbox) \in Nat
      /\ Head(ackQ) # Other => Acks(ackQ) = Acks(ackQ') + 1
      /\ Head(ackQ) = Other => Acks(ackQ) = Acks(ackQ')
  BY <1>1, QueueFacts, AcksTail, AcksType
<1>3. CASE Head(ackQ) = Other /\ UNCHANGED <<worker, result, lostCmds>>
  BY <1>1, <1>2, <1>3 DEF LinkInv, Shape, Severed, Accounted, Expected, Failed, Newest, Sending
<1>4. CASE Head(ackQ) # Other /\ End(n, "OK", "idle")
  <2>1. Acks(ackQ) = Acks(ackQ') + 1
    BY <1>2, <1>4
  <2> QED  BY <1>1, <1>2, <1>4, <2>1, EndStep DEF Sending, Results
<1> QED  BY <1>3, <1>4 DEF TakeLine

-----------------------------------------------------------------------------
(* The steps of reconnect, of the router and of the printer.               *)

\* A reconnect: of what was left behind only the lines in the printer remain.
LEMMA ReconnectStep ==
  ASSUME LinkInv, Reopen \/ Stabilise \/ Flush
  PROVE  LinkInv'
<1>1. /\ inbox \in Seq(Cmd) /\ wire \in Seq(Lines) /\ ackQ \in Seq(Lines) /\ surplus \in Nat
      /\ Len(inbox) \in Nat /\ Acks(wire) \in Nat /\ Acks(ackQ) \in Nat
      /\ <<>> \in Seq(Lines) /\ <<>> \in Seq(Cmd) /\ Acks(<<>>) = 0 /\ Len(<<>>) = 0
  BY AcksType, AcksEmpty, QueueFacts, EmptySeq DEF LinkInv, Shape
<1>2. CASE Reopen
  <2>1. /\ worker = "reconnecting" /\ lostCmds' = 0 /\ ~connected /\ wire = <<>>
        /\ UNCHANGED <<ackQ, n, result>> /\ Len(inbox) <= surplus
    BY <1>1, <1>2 DEF Reopen, LinkInv, Severed, Accounted, Expected
  <2>2. CASE worker' = "idle" /\ UNCHANGED <<connected, wire, inbox, surplus>>
    BY <1>1, <2>1, <2>2 DEF LinkInv, Shape, Severed, Accounted, Expected, Failed, Newest, Sending,
       WorkerPoints
  <2>3. CASE /\ worker' = "stabilising" /\ connected' = TRUE /\ wire' = <<>>
             /\ (inbox' = <<>> /\ surplus' = 0) \/ UNCHANGED <<inbox, surplus>>
    <3>1. Acks(wire') = 0
      BY ONLY <1>1, <2>3, Zenon
    <3>2. CASE inbox' = <<>> /\ surplus' = 0
      <4>1. inbox' \in Seq(Cmd) /\ Len(inbox') = 0
        BY ONLY <1>1, <3>2, Zenon
      <4>2. surplus' \in Nat /\ 0 <= surplus'
        BY <3>2
      <4> QED  BY <1>1, <2>1, <2>3, <3>1, <3>2, <4>1, <4>2 DEF LinkInv, Shape, Severed, Accounted,
                  Expected, Failed, Newest, Sending, WorkerPoints
    <3>3. CASE UNCHANGED <<inbox, surplus>>
      BY <1>1, <2>1, <2>3, <3>1, <3>3 DEF LinkInv, Shape, Severed, Accounted, Expected, Failed,
         Newest, Sending, WorkerPoints
    <3> QED  BY <2>3, <3>2, <3>3
  <2> QED  BY <1>2, <2>2, <2>3 DEF Reopen
<1>3. CASE Stabilise
  <2>1. /\ worker = "stabilising" /\ UNCHANGED <<inbox, ackQ, n, result, connected, surplus, lostCmds>>
        /\ \/ worker' = "flushing" /\ wire' = <<>>
           \/ worker' = "reconnecting" /\ UNCHANGED wire /\ ~connected
    BY <1>3 DEF Stabilise, hist
  <2>2. wire' \in Seq(Lines) /\ (Acks(wire') = 0 \/ Acks(wire') = Acks(wire))
    BY ONLY <1>1, <2>1, Zenon
  <2> QED  BY <1>1, <2>1, <2>2 DEF LinkInv, Shape, Severed, Accounted, Expected, Failed, Newest,
              Sending, WorkerPoints
<1>4. CASE Flush
  <2>1. /\ worker = "flushing" /\ worker' = "idle" /\ ackQ' = <<>>
        /\ UNCHANGED <<inbox, wire, n, result, connected, surplus, lostCmds>>
    BY <1>4 DEF Flush, link, hist
  <2>2. ackQ' \in Seq(Lines) /\ Acks(ackQ') = 0
    BY <1>1, <2>1
  <2> QED  BY <1>1, <2>1, <2>2 DEF LinkInv, Shape, Severed, Accounted, Expected, Failed, Newest,
              Sending, WorkerPoints
<1> QED  BY <1>2, <1>3, <1>4

\* Nobody but the processor's thread moves: lines wander from the printer to the
\* queue, or are lost, and none is made.
LEMMA WanderStep ==
  ASSUME LinkInv, UNCHANGED <<send, surplus, lostCmds>>,
         connected' \in BOOLEAN, connected' => connected,
         wire' \in Seq(Lines), inbox' \in Seq(Cmd), ackQ' \in Seq(Lines),
         ~connected' => wire' = <<>>,
         Len(inbox') + Acks(wire') <= Len(inbox) + Acks(wire),
         Len(inbox') + Acks(wire') + Acks(ackQ') <= Len(inbox) + Acks(wire) + Acks(ackQ),
         inbox' # <<>> => inbox # <<>> /\ inbox'[Len(inbox')] = inbox[Len(inbox)]
  PROVE  LinkInv'
<1>1. /\ Len(inbox) \in Nat /\ Acks(wire) \in Nat /\ Acks(ackQ) \in Nat /\ surplus \in Nat
      /\ Len(inbox') \in Nat /\ Acks(wire') \in Nat /\ Acks(ackQ') \in Nat
  BY AcksType, QueueFacts DEF LinkInv, Shape
<1>2. UNCHANGED <<n, worker, result, surplus, lostCmds>>
  BY DEF send
<1>3. Shape' /\ Severed' /\ Failed' /\ Newest'
  BY <1>2 DEF LinkInv, Shape, Severed, Failed, Newest, Sending
<1>4. Accounted'
  BY <1>1, <1>2 DEF LinkInv, Accounted, Expected, Sending
<1> QED  BY <1>3, <1>4 DEF LinkInv

\* The router puts a line into the queue; the oldest may have to go.
LEMMA RouteStep ==
  ASSUME LinkInv, Route
  PROVE  LinkInv'
<1>1. /\ wire \in Seq(Lines) /\ ackQ \in Seq(Lines) /\ inbox \in Seq(Cmd) /\ wire # <<>>
      /\ wire' = Tail(wire) /\ UNCHANGED <<connected, inbox, send, surplus, lostCmds>>
      /\ connected = TRUE
  BY DEF Route, hist, LinkInv, Shape, Severed
<1>2. /\ Head(wire) \in Lines /\ wire' \in Seq(Lines) /\ Len(inbox) \in Nat
      /\ Acks(wire') \in Nat /\ Acks(ackQ) \in Nat
      /\ Head(wire) # Other => Acks(wire) = Acks(wire') + 1
      /\ Head(wire) = Other => Acks(wire) = Acks(wire')
  BY <1>1, QueueFacts, AcksTail, AcksType
<1>3. PICK q \in Seq(Lines) : ackQ' = Append(q, Head(wire)) /\ Acks(q) <= Acks(ackQ)
  <2>1. CASE ackQ' = Append(ackQ, Head(wire))
    BY <1>1, <1>2, <2>1
  <2>2. CASE ackQ # <<>> /\ ackQ' = Append(Tail(ackQ), Head(wire))
    <3>1. Tail(ackQ) \in Seq(Lines) /\ Acks(Tail(ackQ)) <= Acks(ackQ)
      BY <1>1, <2>2, AcksTail
    <3> QED  BY ONLY <2>2, <3>1
  <2>3. ackQ # <<>> \/ Len(ackQ) < AckSize
    BY SizesAssumption, EmptySeq
  <2> QED  BY <2>1, <2>2, <2>3, Zenon DEF Route
<1>4. /\ ackQ' \in Seq(Lines) /\ Acks(q) \in Nat
      /\ Head(wire) # Other => Acks(ackQ') = Acks(q) + 1
      /\ Head(wire) = Other => Acks(ackQ') = Acks(q)
  BY <1>2, <1>3, AcksAppend
<1>5. Acks(ackQ') \in Nat /\ Len(inbox') = Len(inbox)
  BY <1>1, <1>4, AcksType
<1>6. /\ Len(inbox') + Acks(wire') <= Len(inbox) + Acks(wire)
      /\ Len(inbox') + Acks(wire') + Acks(ackQ') <= Len(inbox) + Acks(wire) + Acks(ackQ)
  BY ONLY <1>2, <1>3, <1>4, <1>5
<1> QED  BY <1>1, <1>2, <1>4, <1>6, WanderStep

\* The printer carries out a line and answers it.
LEMMA ExecuteStep ==
  ASSUME LinkInv, Execute
  PROVE  LinkInv'
<1>1. /\ wire \in Seq(Lines) /\ ackQ \in Seq(Lines) /\ inbox \in Seq(Cmd) /\ inbox # <<>>
      /\ inbox' = Tail(inbox) /\ UNCHANGED <<connected, ackQ, send, surplus, lostCmds>>
      /\ wire' = IF connected THEN Append(wire, Head(inbox)) ELSE wire
      /\ connected \in BOOLEAN /\ (~connected => wire = <<>>)
  BY DEF Execute, Say, LinkInv, Shape, Severed
<1>2. /\ Head(inbox) \in Lines /\ inbox' \in Seq(Cmd) /\ Len(inbox') = Len(inbox) - 1
      /\ Len(inbox) \in Nat /\ (inbox' # <<>> => inbox'[Len(inbox')] = inbox[Len(inbox)])
  BY <1>1, QueueFacts DEF Lines
<1>3. Acks(wire) \in Nat /\ Acks(ackQ) \in Nat
  BY <1>1, AcksType
<1>4. wire' \in Seq(Lines) /\ (Acks(wire') = Acks(wire) + 1 \/ Acks(wire') = Acks(wire))
  <2>1. CASE wire' = Append(wire, Head(inbox))
    BY <1>1, <1>2, <2>1, AcksAppend
  <2>2. CASE wire' = wire
    BY <1>1, <2>2
  <2> QED  BY <1>1, <2>1, <2>2
<1>5. /\ Len(inbox') + Acks(wire') <= Len(inbox) + Acks(wire)
      /\ Len(inbox') + Acks(wire') + Acks(ackQ') <= Len(inbox) + Acks(wire) + Acks(ackQ)
  BY ONLY <1>1, <1>2, <1>3, <1>4
<1> QED  BY <1>1, <1>2, <1>4, <1>5, WanderStep

\* The printer reports, the router meets a SerialException or looks at the port.
LEMMA OutsideStep ==
  ASSUME LinkInv, Report \/ ReadFails \/ Look
  PROVE  LinkInv'
<1>1. /\ wire \in Seq(Lines) /\ ackQ \in Seq(Lines) /\ inbox \in Seq(Cmd)
      /\ UNCHANGED <<inbox, ackQ, send, surplus, lostCmds>>
      /\ connected \in BOOLEAN /\ (~connected => wire = <<>>)
      /\ Len(inbox) \in Nat /\ Acks(wire) \in Nat /\ Acks(ackQ) \in Nat
  BY AcksType, QueueFacts DEF Report, ReadFails, Look, hist, LinkInv, Shape, Severed
<1>2. Append(wire, Other) \in Seq(Lines) /\ Acks(Append(wire, Other)) = Acks(wire)
  BY <1>1, AcksAppend DEF Lines
<1>3. /\ wire' = Append(wire, Other) \/ wire' = wire \/ wire' = <<>>
      /\ \/ UNCHANGED connected /\ (~connected => wire' = wire)
         \/ connected' = FALSE /\ wire' = <<>>
  BY DEF Report, ReadFails, Look, Say
<1>4. wire' \in Seq(Lines) /\ (Acks(wire') = 0 \/ Acks(wire') = Acks(wire))
  <2>1. <<>> \in Seq(Lines)
    BY EmptySeq
  <2> QED  BY ONLY <1>1, <1>2, <1>3, <2>1, AcksEmpty, Zenon
<1>5. Len(inbox') = Len(inbox) /\ Acks(ackQ') = Acks(ackQ)
  BY <1>1
<1>6. /\ Len(inbox') + Acks(wire') <= Len(inbox) + Acks(wire)
      /\ Len(inbox') + Acks(wire') + Acks(ackQ') <= Len(inbox) + Acks(wire) + Acks(ackQ)
  BY ONLY <1>1, <1>4, <1>5
<1>7. /\ UNCHANGED <<send, surplus, lostCmds>> /\ connected' \in BOOLEAN /\ (connected' => connected)
      /\ (~connected' => wire' = <<>>) /\ inbox' \in Seq(Cmd) /\ ackQ' \in Seq(Lines)
      /\ (inbox' # <<>> => inbox # <<>> /\ inbox'[Len(inbox')] = inbox[Len(inbox)])
  <2>1. connected' \in BOOLEAN /\ (connected' => connected)
    <3>1. connected \in BOOLEAN /\ (UNCHANGED connected \/ connected' = FALSE)
      BY ONLY <1>1, <1>3
    <3>2. CASE connected' = FALSE
      BY ONLY <3>2
    <3>3. CASE UNCHANGED connected
      BY ONLY <3>1, <3>3, Zenon
    <3> QED  BY ONLY <3>1, <3>2, <3>3
  <2>2. ~connected' => wire' = <<>>
    BY ONLY <1>1, <1>3
  <2>3. inbox' \in Seq(Cmd) /\ ackQ' \in Seq(Lines)
    BY <1>1
  <2>4. inbox' # <<>> => inbox # <<>> /\ inbox'[Len(inbox')] = inbox[Len(inbox)]
    BY ONLY <1>1, Zenon
  <2> QED  BY ONLY <1>1, <2>1, <2>2, <2>3, <2>4
<1> QED  BY ONLY <1>4, <1>6, <1>7, LinkInv, WanderStep

-----------------------------------------------------------------------------
(* Theorems.                                                               *)

\* What a time-out leaves behind is counted, and no loss goes on unnoticed.
THEOREM LinkTheorem == Spec => []LinkInv
<1>1. Init => LinkInv
  <2> SUFFICES ASSUME Init PROVE LinkInv
    OBVIOUS
  <2>1. <<>> \in Seq(Lines) /\ <<>> \in Seq(Cmd) /\ Len(<<>>) = 0 /\ Acks(<<>>) = 0
    BY AcksEmpty, EmptySeq
  <2>2. /\ wire \in Seq(Lines) /\ inbox \in Seq(Cmd) /\ ackQ \in Seq(Lines)
        /\ Len(inbox) = 0 /\ Acks(wire) = 0 /\ Acks(ackQ) = 0
    BY ONLY <2>1, Init, Zenon DEF Init
  <2> QED  BY <2>2, SizesAssumption DEF Init, LinkInv, Shape, Severed, Accounted, Expected, Failed,
              Newest, Sending, WorkerPoints, Results, Cmd
<1>2. LinkInv /\ [Next]_vars => LinkInv'
  <2> SUFFICES ASSUME LinkInv, [Next]_vars PROVE LinkInv'
    OBVIOUS
  <2>1. CASE Begin                       BY <2>1, BeginStep
  <2>2. CASE Write                       BY <2>2, WriteStep
  <2>3. CASE WriteFails                  BY <2>3, WriteFailsStep
  <2>4. CASE TakeLine                    BY <2>4, TakeLineStep
  <2>5. CASE TimeOut                     BY <2>5, TimeOutStep
  <2>6. CASE Reopen \/ Stabilise \/ Flush BY <2>6, ReconnectStep
  <2>7. CASE Route                       BY <2>7, RouteStep
  <2>8. CASE Execute                     BY <2>8, ExecuteStep
  <2>9. CASE Report \/ ReadFails \/ Look BY <2>9, OutsideStep
  <2>10. CASE UNCHANGED vars
    BY <2>10 DEF vars, link, send, hist, LinkInv, Shape, Severed, Accounted, Expected, Failed, Newest,
       Acks
  <2> QED  BY <2>1, <2>2, <2>3, <2>4, <2>5, <2>6, <2>7, <2>8, <2>9, <2>10 DEF Next, Work
<1> QED  BY <1>1, <1>2, PTL DEF Spec

\* The lines the printer still has and the answers still to be taken are at most
\* the attempts that gave up and the one that waits: so for every reconnect too.
THEOREM OutstandingTheorem == Spec => []OutstandingBound
<1>1. LinkInv => OutstandingBound
  BY DEF LinkInv, Accounted, Expected, Sending, OutstandingBound
<1> QED  BY <1>1, LinkTheorem, PTL

\* At most two commands fail of a lost connection before a reconnect is tried.
THEOREM LossTheorem == Spec => []LossNoticed
<1>1. LinkInv => LossNoticed
  BY DEF LinkInv, Failed, LossNoticed
<1> QED  BY <1>1, LinkTheorem, PTL

\* The values of a sequence are at most as many as its places.
LEMMA ValuesBound ==
  ASSUME NEW S, NEW s \in Seq(S), NEW l \in 0..Len(s)
  PROVE  /\ IsFiniteSet({s[k] : k \in 1..l})
         /\ Cardinality({s[k] : k \in 1..l}) <= l
         /\ Cardinality({s[k] : k \in 1..l}) \in Nat
<1> DEFINE T == {s[k] : k \in 1..l}
           f == [k \in 1..l |-> s[k]]
<1>1. l \in Nat
  BY LenProperties
<1>2. IsFiniteSet(1..l) /\ Cardinality(1..l) = l
  BY <1>1, FS_Interval
<1>3. f \in Surjection(1..l, T)
  BY DEF Surjection
<1>4. IsFiniteSet(T) /\ Cardinality(T) <= Cardinality(1..l)
  BY <1>2, <1>3, FS_Surjection
<1> QED  BY <1>1, <1>2, <1>4, FS_CardinalityType

\* Commands reported OK before the printer has executed them are at most the
\* attempts that gave up.
THEOREM PrematureTheorem == Spec => []PrematureBound
<1>1. ASSUME LinkInv PROVE PrematureBound
  <2> DEFINE P == {m \in ToSet(inbox) : result[m] = "OK" /\ m \notin executed}
             l == IF worker = "reading" /\ inbox # <<>> THEN Len(inbox) - 1 ELSE Len(inbox)
             T == {inbox[k] : k \in 1..l}
  <2>1. /\ inbox \in Seq(Cmd) /\ Len(inbox) \in Nat /\ Acks(wire) \in Nat /\ surplus \in Nat
        /\ Len(inbox) + Acks(wire) <= surplus + Expected
        /\ inbox # <<>> => Len(inbox) >= 1
        /\ inbox = <<>> => Len(inbox) = 0
    BY <1>1, AcksType, QueueFacts, EmptySeq DEF LinkInv, Shape, Accounted
  <2>2. l \in 0..Len(inbox) /\ l <= surplus
    BY <2>1 DEF Expected
  <2>3. IsFiniteSet(T) /\ Cardinality(T) <= l /\ Cardinality(T) \in Nat
    <3> HIDE DEF l
    <3> QED  BY ONLY <2>1, <2>2, ValuesBound
  <2>4. P \subseteq T
    <3> SUFFICES ASSUME NEW m \in P PROVE m \in T
      OBVIOUS
    <3>1. PICK k \in 1..Len(inbox) : m = inbox[k]
      BY <2>1, LenProperties DEF ToSet
    <3>2. k \in 1..l
      <4>1. CASE worker = "reading" /\ inbox # <<>>
        <5>1. result[n] = "none" /\ inbox[Len(inbox)] = n
          BY <1>1, <4>1 DEF LinkInv, Newest, Sending
        <5> QED  BY <2>1, <3>1, <4>1, <5>1
      <4>2. CASE ~(worker = "reading" /\ inbox # <<>>)
        BY <4>2
      <4> QED  BY <4>1, <4>2
    <3> QED  BY <3>1, <3>2
  <2>5. Cardinality(P) \in Nat /\ Cardinality(P) <= Cardinality(T)
    BY ONLY <2>3, <2>4, FS_Subset, FS_CardinalityType
  <2>6. Cardinality(P) <= surplus
    <3> HIDE DEF P, T, l
    <3> QED  BY ONLY <2>1, <2>2, <2>3, <2>5
  <2> QED  BY <2>6 DEF PrematureBound
<1> QED  BY <1>1, LinkTheorem, PTL

-----------------------------------------------------------------------------
(* The bounds of the queue, the attempts and the environment.              *)

Bounded ==
    /\ reader \in {"waiting", "reading", "gone"}
    /\ Len(ackQ) <= AckSize
    /\ attempt \in 0..MaxRetries
    /\ losses \in 0..MaxLosses /\ reports \in 0..MaxReports
    /\ executed \subseteq Cmd

\* A line put into the ack queue never makes it longer than its capacity: when
\* it is full the oldest line goes first.
LEMMA RouteBounded ==
  ASSUME ackQ \in Seq(Lines), wire \in Seq(Lines), Len(ackQ) <= AckSize, Route
  PROVE  Len(ackQ') <= AckSize
<1>1. AckSize \in Nat \ {0}
  BY SizesAssumption
<1>2. wire # <<>> /\ Head(wire) \in Lines
  BY QueueFacts DEF Route
<1>3. CASE Len(ackQ) < AckSize
  <2>1. ackQ' = Append(ackQ, Head(wire))
    BY <1>3 DEF Route
  <2>2. Len(Append(ackQ, Head(wire))) = Len(ackQ) + 1 /\ Len(ackQ) \in Nat
    BY <1>2, QueueFacts
  <2> QED  BY <1>1, <1>3, <2>1, <2>2
<1>4. CASE ~(Len(ackQ) < AckSize)
  <2>1. Len(ackQ) \in Nat /\ Len(ackQ) = AckSize /\ ackQ' = Append(Tail(ackQ), Head(wire))
    BY <1>1, <1>4, QueueFacts DEF Route
  <2>2. ackQ # <<>>
    BY <1>1, <2>1, EmptySeq
  <2>3. Tail(ackQ) \in Seq(Lines) /\ Len(Tail(ackQ)) = Len(ackQ) - 1
    BY <2>2, QueueFacts
  <2>4. Len(Append(Tail(ackQ), Head(wire))) = Len(Tail(ackQ)) + 1
    BY <1>2, <2>3, QueueFacts
  <2> QED  BY <1>1, <2>1, <2>3, <2>4
<1> QED  BY <1>3, <1>4

\* An attempt that is over is counted, and the last one is MAX_RETRIES.
LEMMA AttemptBounded ==
  ASSUME attempt \in 0..MaxRetries, NextAttempt
  PROVE  attempt' \in 0..MaxRetries
BY SizesAssumption DEF NextAttempt

\* The types and the bounds of all the variables: the ack queue never holds
\* more than its capacity, no command is tried more than MAX_RETRIES times.
THEOREM TypeTheorem == Spec => []TypeOK
<1> USE SizesAssumption, BoundsAssumption
<1>1. Init => Bounded
  <2> SUFFICES ASSUME Init PROVE Bounded
    OBVIOUS
  <2>1. Len(ackQ) = 0
    BY EmptySeq DEF Init
  <2> QED  BY <2>1 DEF Init, Bounded
<1>2. LinkInv /\ Bounded /\ [Next]_vars => Bounded'
  <2> SUFFICES ASSUME LinkInv, Bounded, [Next]_vars PROVE Bounded'
    OBVIOUS
  <2>0. /\ ackQ \in Seq(Lines) /\ wire \in Seq(Lines) /\ inbox \in Seq(Cmd)
        /\ Len(ackQ) \in Nat /\ Len(ackQ) <= AckSize
    BY QueueFacts DEF LinkInv, Shape, Bounded
  <2>1. CASE Begin
    <3>1. UNCHANGED <<ackQ, losses, reports, executed>>
      BY <2>1 DEF Begin
    <3>2. attempt' \in 0..MaxRetries
      BY <2>1 DEF Begin, Bounded
    <3>3. reader' \in {"waiting", "reading", "gone"}
      BY <2>1 DEF Begin, Disconnect, Bounded
    <3> QED  BY <3>1, <3>2, <3>3 DEF Bounded
  <2>2. CASE Write
    BY <2>2 DEF Write, hist, Bounded
  <2>3. CASE WriteFails
    <3>1. attempt' \in 0..MaxRetries
      BY <2>3, AttemptBounded DEF WriteFails, Bounded
    <3>2. losses' \in 0..MaxLosses
      BY <2>3 DEF WriteFails, Bounded
    <3> QED  BY <2>3, <3>1, <3>2 DEF WriteFails, Bounded
  <2>4. CASE TakeLine
    <3>1. ackQ # <<>> /\ ackQ' = Tail(ackQ)
      BY <2>4 DEF TakeLine
    <3>2. Len(ackQ') <= AckSize
      BY <2>0, <3>1, QueueFacts
    <3> QED  BY <2>4, <3>2 DEF TakeLine, link, Bounded
  <2>5. CASE TimeOut
    <3>1. attempt' \in 0..MaxRetries
      BY <2>5, AttemptBounded DEF TimeOut, Bounded
    <3> QED  BY <2>5, <3>1 DEF TimeOut, link, Bounded
  <2>6. CASE Reopen
    BY <2>6 DEF Reopen, Bounded
  <2>7. CASE Stabilise
    BY <2>7 DEF Stabilise, hist, Bounded
  <2>8. CASE Flush
    <3>1. Len(ackQ') = 0
      BY <2>8, EmptySeq DEF Flush
    <3> QED  BY <2>8, <3>1 DEF Flush, link, hist, Bounded
  <2>9. CASE Route
    <3>1. Len(ackQ') <= AckSize
      BY <2>0, <2>9, RouteBounded
    <3> QED  BY <2>9, <3>1 DEF Route, send, hist, Bounded
  <2>10. CASE Look
    BY <2>10 DEF Look, send, hist, Bounded
  <2>11. CASE ReadFails
    BY <2>11 DEF ReadFails, send, hist, Bounded
  <2>12. CASE Execute
    <3>1. Head(inbox) \in Cmd
      BY <2>0, <2>12, QueueFacts DEF Execute
    <3> QED  BY <2>12, <3>1 DEF Execute, send, Bounded
  <2>13. CASE Report
    BY <2>13 DEF Report, send, hist, Bounded
  <2>14. CASE UNCHANGED vars
    BY <2>14 DEF vars, link, send, hist, Bounded
  <2> QED  BY <2>1, <2>2, <2>3, <2>4, <2>5, <2>6, <2>7, <2>8, <2>9, <2>10, <2>11, <2>12, <2>13, <2>14
              DEF Next, Work
<1>3. LinkInv /\ Bounded => TypeOK
  BY DEF LinkInv, Shape, Bounded, TypeOK, Lines
<1> QED  BY <1>1, <1>2, <1>3, LinkTheorem, PTL DEF Spec

=============================================================================
