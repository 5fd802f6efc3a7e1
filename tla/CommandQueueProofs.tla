------------------------- MODULE CommandQueueProofs -------------------------
(***************************************************************************)
(* Proofs about CommandQueue, for any set of commands, any of them silent, *)
(* and a queue of any size: its invariants, and that it implements         *)
(* CommandService.                                                         *)
(***************************************************************************)
EXTENDS CommandQueue, SequenceTheorems, TLAPS

-----------------------------------------------------------------------------
(* The inductive invariant.                                                *)

Holding  == {"taken", "sending", "error_pause", "reconnecting", "draining", "finish"}
Decided  == {"error_pause", "reconnecting", "draining", "finish"}
Entered  == {"waiting", "returned"}

Shape ==
    /\ fifo \in Seq(Cmds)
    /\ current \in Cmds \cup {NoCmd}
    /\ worker \in WorkerPoints
    /\ caller \in [Cmds -> CallerPoints]
    /\ status \in [Cmds -> Statuses]
    /\ doneEv \in [Cmds -> BOOLEAN]
    /\ DOMAIN result = Cmds

\* An entry is in one place only: queue, worker's hands, or done with.
OnePlace ==
    /\ \A m, n \in DOMAIN fifo : fifo[m] = fifo[n] => m = n
    /\ \A n \in DOMAIN fifo : /\ caller[fifo[n]] \in Entered
                              /\ fifo[n] # current
                              /\ doneEv[fifo[n]] = FALSE
    /\ current \in Cmds <=> worker \in Holding
    /\ current \in Cmds => caller[current] \in Entered /\ doneEv[current] = FALSE
    /\ worker \in Decided => status[current] \in Settled
    /\ \A c \in Cmds : doneEv[c] = TRUE => caller[c] \in Entered

QueueInv == Shape /\ OnePlace /\ WokenIsSettled /\ NoneForgotten

-----------------------------------------------------------------------------
(* Sequences: what taking the head and appending leave where.              *)

\* Tail moves every entry one place to the front.
LEMMA TailFacts ==
  ASSUME NEW S, NEW s \in Seq(S), s # <<>>
  PROVE  /\ Tail(s) \in Seq(S) /\ Head(s) \in S /\ Head(s) = s[1]
         /\ \A n \in DOMAIN Tail(s) : n + 1 \in DOMAIN s /\ Tail(s)[n] = s[n + 1]
         /\ \A n \in DOMAIN s : n # 1 => n - 1 \in DOMAIN Tail(s) /\ Tail(s)[n - 1] = s[n]
         /\ 1 \in DOMAIN s /\ DOMAIN s \subseteq Nat
         /\ \A n \in DOMAIN Tail(s) : n \in Nat \ {0}
  BY HeadTailProperties

\* Append leaves every entry where it was.
LEMMA AppendFacts ==
  ASSUME NEW S, NEW s \in Seq(S), NEW x \in S
  PROVE  /\ Append(s, x) \in Seq(S)
         /\ Len(s) + 1 \in DOMAIN Append(s, x)
         /\ Append(s, x)[Len(s) + 1] = x
         /\ \A n \in DOMAIN Append(s, x) :
               n = Len(s) + 1 \/ (n \in DOMAIN s /\ Append(s, x)[n] = s[n])
         /\ \A n \in DOMAIN s : n \in DOMAIN Append(s, x) /\ Append(s, x)[n] = s[n]
  BY AppendProperties

-----------------------------------------------------------------------------
(* The steps.                                                              *)

\* A caller gives up or is told of the end.
LEMMA AnswerStep ==
  ASSUME QueueInv, NEW c \in Cmds, Invalid(c) \/ Wake(c) \/ TimeOut(c)
  PROVE  QueueInv'
  BY DEF QueueInv, Shape, OnePlace, WokenIsSettled, NoneForgotten, Taken, Invalid, Wake,
         TimeOut, Reply, Statuses, Settled, CallerPoints, Entered

\* enqueue's look at the state.
LEMMA CheckStateStep ==
  ASSUME QueueInv, NEW c \in Cmds, CheckState(c)
  PROVE  QueueInv'
<1>1. CASE state = "SHUTDOWN" /\ Refuse(c)
  <2>1. /\ caller' = [caller EXCEPT ![c] = "returned"]
        /\ status' = [status EXCEPT ![c] = "REJECTED"]
        /\ result' = [result EXCEPT ![c] = "REJECTED"]
        /\ UNCHANGED <<fifo, current, worker, doneEv>>
    BY <1>1 DEF CheckState, Refuse, Reply
  <2>2. Shape' /\ OnePlace'
    BY <2>1 DEF QueueInv, Shape, OnePlace, Entered, CallerPoints, Statuses, Settled
  <2>3. WokenIsSettled'
    BY <2>1 DEF QueueInv, Shape, WokenIsSettled, Settled
  <2>4. NoneForgotten'
    BY <2>1 DEF QueueInv, Shape, NoneForgotten, Taken, Settled
  <2> QED  BY <2>2, <2>3, <2>4 DEF QueueInv
<1>2. CASE caller' = [caller EXCEPT ![c] = "checked"] /\ UNCHANGED <<status, result>>
  <2>1. UNCHANGED <<fifo, current, worker, doneEv>> /\ caller[c] = "new"
    BY DEF CheckState
  <2>2. Shape' /\ OnePlace'
    BY <1>2, <2>1 DEF QueueInv, Shape, OnePlace, Entered, CallerPoints
  <2>3. WokenIsSettled' /\ NoneForgotten'
    BY <1>2, <2>1 DEF QueueInv, Shape, WokenIsSettled, NoneForgotten, Taken
  <2> QED  BY <2>2, <2>3 DEF QueueInv
<1> QED  BY <1>1, <1>2 DEF CheckState

\* The entry goes to the end of the queue, or is refused.
LEMMA EnqueueStep ==
  ASSUME QueueInv, NEW c \in Cmds, Enqueue(c)
  PROVE  QueueInv'
<1>1. CASE Len(fifo) >= Capacity /\ Refuse(c) /\ UNCHANGED fifo
  BY <1>1 DEF QueueInv, Shape, OnePlace, WokenIsSettled, NoneForgotten, Taken, Enqueue, Refuse,
              Reply, Statuses, Settled, CallerPoints, Entered
<1>2. CASE fifo' = Append(fifo, c) /\ Accepted(c) /\ UNCHANGED status
  <2>1. /\ caller[c] = "checked" /\ caller \in [Cmds -> CallerPoints]
        /\ caller'[c] \in Entered /\ caller' \in [Cmds -> CallerPoints]
        /\ DOMAIN result' = Cmds
        /\ \A d \in Cmds \ {c} : caller'[d] = caller[d] /\ result'[d] = result[d]
        /\ UNCHANGED <<current, worker, status, doneEv>>
    BY <1>2 DEF QueueInv, Shape, Enqueue, Accepted, Reply, Entered, CallerPoints
  <2>2. fifo \in Seq(Cmds) /\ \A n \in DOMAIN fifo : fifo[n] # c /\ fifo[n] \in Cmds
    BY <2>1 DEF QueueInv, Shape, OnePlace, Entered
  <2>3. c # current /\ doneEv[c] = FALSE
    BY <2>1 DEF QueueInv, Shape, OnePlace, Entered
  <2>4. /\ fifo' \in Seq(Cmds)
        /\ \A n \in DOMAIN fifo' : (n = Len(fifo) + 1 /\ fifo'[n] = c)
                                     \/ (n \in DOMAIN fifo /\ fifo'[n] = fifo[n])
        /\ \E n \in DOMAIN fifo' : fifo'[n] = c
        /\ \A n \in DOMAIN fifo : n \in DOMAIN fifo' /\ fifo'[n] = fifo[n]
    BY <1>2, <2>2, AppendFacts
  <2>5. Shape'
    BY <2>1, <2>4 DEF QueueInv, Shape
  <2>6. OnePlace'
    BY <2>1, <2>2, <2>3, <2>4 DEF QueueInv, Shape, OnePlace
  <2>7. WokenIsSettled' /\ NoneForgotten'
    BY <2>1, <2>4 DEF QueueInv, Shape, WokenIsSettled, NoneForgotten, Taken
  <2> QED  BY <2>5, <2>6, <2>7 DEF QueueInv
<1> QED  BY <1>1, <1>2 DEF Enqueue

\* The worker takes the oldest entry.
LEMMA TakeStep ==
  ASSUME QueueInv, Take
  PROVE  QueueInv'
<1>1. fifo \in Seq(Cmds) /\ fifo # <<>> /\ fifo' = Tail(fifo) /\ current' = Head(fifo)
  BY DEF QueueInv, Shape, Take
<1>2. current = NoCmd /\ worker' = "taken" /\ NoCmd \notin Cmds
  BY CmdsAssumption DEF QueueInv, Shape, OnePlace, Take, Holding
<1>3. UNCHANGED <<caller, status, doneEv, result>>
  BY DEF Take, outside
<1>4. Shape'
  BY <1>1, <1>2, <1>3, TailFacts DEF QueueInv, Shape, WorkerPoints
<1>5. OnePlace'
  BY <1>1, <1>2, <1>3, TailFacts DEF QueueInv, Shape, OnePlace, Holding, Decided
<1>6. WokenIsSettled'
  BY <1>3 DEF QueueInv, WokenIsSettled
<1>7. NoneForgotten'
  <2> SUFFICES ASSUME NEW c \in Cmds, Taken(c), status[c] \notin Settled
               PROVE  current' = c \/ \E n \in DOMAIN fifo' : fifo'[n] = c
    BY <1>3 DEF NoneForgotten, Taken
  <2>1. PICK n \in DOMAIN fifo : fifo[n] = c
    BY <1>2 DEF QueueInv, NoneForgotten
  <2>2. CASE n = 1
    BY <1>1, <2>1, <2>2, TailFacts
  <2>3. CASE n # 1
    <3>1. n - 1 \in DOMAIN Tail(fifo) /\ Tail(fifo)[n - 1] = fifo[n]
      BY <1>1, <2>3, TailFacts
    <3> QED  BY <1>1, <2>1, <3>1
  <2> QED  BY <2>2, <2>3
<1> QED  BY <1>4, <1>5, <1>6, <1>7 DEF QueueInv

\* The two drains settle the entries they throw away.
LEMMA DrainStep ==
  ASSUME QueueInv, DrainOnError \/ DrainOnShutdown
  PROVE  QueueInv'
<1>1. CASE UNCHANGED <<fifo, status>>
  BY <1>1 DEF QueueInv, Shape, OnePlace, WokenIsSettled, NoneForgotten, Taken, DrainOnError,
              DrainOnShutdown, outside, threads, WorkerPoints, Holding, Decided
<1>2. CASE /\ fifo # <<>> /\ fifo' = Tail(fifo) /\ UNCHANGED worker
           /\ \E s \in {"FAILED", "REJECTED"} : status' = [status EXCEPT ![Head(fifo)] = s]
  <2>1. PICK s \in {"FAILED", "REJECTED"} : status' = [status EXCEPT ![Head(fifo)] = s]
    BY <1>2
  <2>2. fifo \in Seq(Cmds) /\ UNCHANGED <<worker, current, caller, doneEv, result>>
    BY <1>2 DEF QueueInv, Shape, DrainOnError, DrainOnShutdown, outside, threads
  <2>3. Shape'
    BY <1>2, <2>1, <2>2, TailFacts DEF QueueInv, Shape, Statuses
  <2>4. OnePlace'
    BY <1>2, <2>1, <2>2, TailFacts DEF QueueInv, Shape, OnePlace, Settled
  <2>5. WokenIsSettled'
    BY <2>1, <2>2 DEF QueueInv, Shape, WokenIsSettled, Settled
  <2>6. NoneForgotten'
    <3> SUFFICES ASSUME NEW c \in Cmds, Taken(c), status'[c] \notin Settled
                 PROVE  current = c \/ \E n \in DOMAIN fifo' : fifo'[n] = c
      BY <2>2 DEF NoneForgotten, Taken
    <3>1. c # Head(fifo) /\ status[c] \notin Settled
      BY <2>1 DEF QueueInv, Shape, Settled
    <3>2. CASE \E n \in DOMAIN fifo : fifo[n] = c
      <4>1. PICK n \in DOMAIN fifo : fifo[n] = c
        BY <3>2
      <4>2. n # 1
        BY <1>2, <2>2, <3>1, <4>1, TailFacts
      <4>3. n - 1 \in DOMAIN Tail(fifo) /\ Tail(fifo)[n - 1] = fifo[n]
        BY <1>2, <2>2, <4>2, TailFacts
      <4> QED  BY <1>2, <4>1, <4>3
    <3> QED  BY <3>1, <3>2 DEF QueueInv, NoneForgotten
  <2> QED  BY <2>3, <2>4, <2>5, <2>6 DEF QueueInv
<1> QED  BY <1>1, <1>2 DEF DrainOnError, DrainOnShutdown, outside, threads

\* The worker's other steps leave the queue alone.
LEMMA WorkerStep ==
  ASSUME QueueInv,
         \/ LoopCheck \/ PollEmpty \/ MarkSent \/ SendReturns \/ SendRaises
         \/ Reconnect \/ Recovered \/ Finish
  PROVE  QueueInv'
<1> USE CmdsAssumption DEF QueueInv, Shape, OnePlace, outside, WorkerPoints, Holding, Decided
<1>1. CASE LoopCheck \/ PollEmpty \/ Reconnect \/ Recovered
  BY <1>1 DEF LoopCheck, PollEmpty, Reconnect, Recovered, WokenIsSettled, NoneForgotten, Taken
<1>2. CASE MarkSent
  BY <1>2 DEF MarkSent, WokenIsSettled, NoneForgotten, Taken, Statuses, Settled
<1>3. CASE SendReturns
  BY <1>3 DEF SendReturns, WokenIsSettled, NoneForgotten, Taken, Statuses, Settled
<1>4. CASE SendRaises
  BY <1>4 DEF SendRaises, WokenIsSettled, NoneForgotten, Taken, Statuses, Settled
<1>5. CASE Finish
  BY <1>5 DEF Finish, WokenIsSettled, NoneForgotten, Taken
<1> QED  BY <1>1, <1>2, <1>3, <1>4, <1>5

-----------------------------------------------------------------------------
\* Queue, worker and callers keep the invariant.
THEOREM QueueTheorem == Spec => []QueueInv
<1>1. Init => QueueInv
  BY CmdsAssumption
     DEF Init, QueueInv, Shape, OnePlace, WokenIsSettled, NoneForgotten, Taken, WorkerPoints,
         CallerPoints, Statuses, Holding, Decided
<1>2. QueueInv /\ [Next]_vars => QueueInv'
  <2> SUFFICES ASSUME QueueInv, [Next]_vars PROVE QueueInv'
    OBVIOUS
  <2>1. CASE UNCHANGED vars
    BY <2>1 DEF vars, QueueInv, Shape, OnePlace, WokenIsSettled, NoneForgotten, Taken
  <2>2. CASE \E c \in Cmds \ Silent : Call(c)
    BY <2>2, AnswerStep, CheckStateStep, EnqueueStep DEF Call
  <2>3. CASE \E c \in Silent : Poll(c)
    BY <2>3, SilentAssumption, CheckStateStep, EnqueueStep DEF Poll
  <2>4. CASE Work
    BY <2>4, TakeStep, DrainStep, WorkerStep DEF Work
  <2>5. CASE Signal \/ SetState \/ Join
    BY <2>5 DEF Signal, SetState, Join, threads, QueueInv, Shape, OnePlace, WokenIsSettled,
                NoneForgotten, Taken
  <2>6. CASE DrainOnShutdown
    BY <2>6, DrainStep
  <2> QED  BY <2>1, <2>2, <2>3, <2>4, <2>5, <2>6 DEF Next, Stop
<1> QED  BY <1>1, <1>2, PTL DEF Spec

\* Whoever is woken by the Event finds a settled command.
THEOREM WokenTheorem == Spec => []WokenIsSettled
<1>1. QueueInv => WokenIsSettled
  BY DEF QueueInv
<1> QED  BY <1>1, QueueTheorem, PTL

\* No accepted command is lost on its way through queue, worker and drains.
THEOREM NoneForgottenTheorem == Spec => []NoneForgotten
<1>1. QueueInv => NoneForgotten
  BY DEF QueueInv
<1> QED  BY <1>1, QueueTheorem, PTL

\* Every variable keeps to its domain: the state is one of the five that
\* command.py names, and a caller is answered with a status of its entry.
THEOREM TypeTheorem == Spec => []TypeOK
<1> USE DEF outside, threads, EngineStates, StopPoints
<1>1. Init => TypeOK
  <2> SUFFICES ASSUME Init PROVE TypeOK
    OBVIOUS
  <2>1. fifo \in Seq(Cmds)
    BY DEF Init
  <2>2. caller \in [Cmds -> CallerPoints] /\ status \in [Cmds -> Statuses]
    BY DEF Init, CallerPoints, Statuses
  <2>3. doneEv \in [Cmds -> BOOLEAN] /\ result \in [Cmds -> Statuses \cup {"none", "queued"}]
    BY DEF Init
  <2> QED  BY <2>1, <2>2, <2>3 DEF Init, TypeOK, WorkerPoints
<1>2. TypeOK /\ [Next]_vars => TypeOK'
  <2> SUFFICES ASSUME TypeOK, [Next]_vars PROVE TypeOK'
    OBVIOUS
  <2>1. fifo \in Seq(Cmds) /\ (fifo # <<>> => Head(fifo) \in Cmds /\ Tail(fifo) \in Seq(Cmds))
    BY TailFacts DEF TypeOK
  <2>2. ASSUME NEW c \in Cmds, Call(c) \/ Poll(c) PROVE TypeOK'
    <3>1. CASE Invalid(c) \/ Wake(c) \/ TimeOut(c)
      BY <3>1 DEF Invalid, Wake, TimeOut, Reply, TypeOK, CallerPoints, Statuses
    <3>2. CASE CheckState(c)
      BY <3>2 DEF CheckState, Refuse, Reply, TypeOK, CallerPoints, Statuses
    <3>3. CASE Enqueue(c)
      <4>1. fifo' \in Seq(Cmds)
        BY <2>1, <3>3, AppendFacts DEF Enqueue
      <4> QED  BY <3>3, <4>1 DEF Enqueue, Refuse, Accepted, Reply, TypeOK, CallerPoints, Statuses
    <3> QED  BY <2>2, <3>1, <3>2, <3>3 DEF Call, Poll
  <2>3. CASE LoopCheck \/ PollEmpty \/ MarkSent \/ SendReturns \/ SendRaises
    BY <2>3 DEF LoopCheck, PollEmpty, MarkSent, SendReturns, SendRaises, TypeOK, WorkerPoints, Statuses
  <2>4. CASE Take \/ DrainOnError \/ DrainOnShutdown
    BY <2>1, <2>4 DEF Take, DrainOnError, DrainOnShutdown, TypeOK, WorkerPoints, Statuses
  <2>5. CASE Reconnect \/ Recovered \/ Finish \/ Signal \/ SetState \/ Join
    BY <2>5 DEF Reconnect, Recovered, Finish, Signal, SetState, Join, TypeOK, WorkerPoints
  <2>6. CASE UNCHANGED vars
    BY <2>6 DEF vars, TypeOK
  <2> QED  BY <2>2, <2>3, <2>4, <2>5, <2>6, SilentAssumption DEF Next, Work, Stop
<1> QED  BY <1>1, <1>2, PTL DEF Spec

-----------------------------------------------------------------------------
(* CommandQueue implements CommandService: the initial state is one of the *)
(* service, and every step of a caller, of the worker or of stop() is a    *)
(* step of the service or none.                                            *)
(*                                                                         *)
(* What a command's status says of where it is: untouched before and in    *)
(* the queue, undecided until the worker decides.                          *)

Untouched ==
    /\ \A n \in DOMAIN fifo : status[fifo[n]] = "PENDING"
    /\ \A c \in Cmds : caller[c] \in {"new", "checked"} => status[c] = "PENDING"
    /\ worker = "taken" => status[current] = "PENDING"
    /\ worker = "sending" => status[current] = "SENT"

ServiceInv == QueueInv /\ Untouched

-----------------------------------------------------------------------------
(* Untouched, step by step.                                                *)

\* A caller that enters or leaves.
LEMMA CallerUntouched ==
  ASSUME ServiceInv, NEW c \in Cmds, Call(c)
  PROVE  Untouched'
<1>1. UNCHANGED <<worker, current>> /\ caller \in [Cmds -> CallerPoints]
      /\ status \in [Cmds -> Statuses] /\ fifo \in Seq(Cmds)
  BY DEF Call, Invalid, CheckState, Enqueue, Wake, TimeOut, ServiceInv, QueueInv, Shape
<1>2. /\ \A n \in DOMAIN fifo : fifo[n] \in Cmds
      /\ caller[c] \in {"new", "checked"} => /\ \A n \in DOMAIN fifo : fifo[n] # c
                                             /\ worker \in Holding => current # c
  BY <1>1 DEF ServiceInv, QueueInv, OnePlace, Entered, Holding
<1>3. CASE UNCHANGED <<fifo, status>> /\ caller'[c] \notin {"new", "checked"}
           /\ \A d \in Cmds \ {c} : caller'[d] = caller[d]
  BY <1>1, <1>3 DEF ServiceInv, Untouched
<1>4. CASE caller[c] = "new" /\ UNCHANGED <<fifo, status>>
           /\ caller' = [caller EXCEPT ![c] = "checked"]
  BY <1>1, <1>4 DEF ServiceInv, Untouched
<1>5. CASE caller[c] \in {"new", "checked"} /\ UNCHANGED fifo /\ Refuse(c)
  BY <1>1, <1>2, <1>5 DEF ServiceInv, Untouched, Refuse, Reply, Holding
<1>6. CASE /\ caller[c] = "checked" /\ fifo' = Append(fifo, c) /\ UNCHANGED status
           /\ caller'[c] \notin {"new", "checked"}
           /\ \A d \in Cmds \ {c} : caller'[d] = caller[d]
  <2>1. \A n \in DOMAIN fifo' : fifo'[n] = c \/ (n \in DOMAIN fifo /\ fifo'[n] = fifo[n])
    BY <1>1, <1>6, AppendFacts
  <2> QED  BY <1>1, <1>6, <2>1 DEF ServiceInv, Untouched
<1>7. Enqueue(c) => \/ caller[c] = "checked" /\ UNCHANGED fifo /\ Refuse(c)
                    \/ /\ caller[c] = "checked" /\ fifo' = Append(fifo, c) /\ UNCHANGED status
                       /\ caller'[c] \notin {"new", "checked"}
                       /\ \A d \in Cmds \ {c} : caller'[d] = caller[d]
  BY <1>1 DEF Enqueue, Accepted, Reply
<1>8. Invalid(c) \/ Wake(c) \/ TimeOut(c)
        => /\ UNCHANGED <<fifo, status>> /\ caller'[c] \notin {"new", "checked"}
           /\ \A d \in Cmds \ {c} : caller'[d] = caller[d]
  BY <1>1 DEF Invalid, Wake, TimeOut, Reply
<1> QED  BY <1>3, <1>4, <1>5, <1>6, <1>7, <1>8 DEF Call, CheckState

\* The worker and stop().
LEMMA EngineUntouched ==
  ASSUME ServiceInv, Work \/ Stop
  PROVE  Untouched'
<1> USE DEF ServiceInv, QueueInv, Shape, OnePlace, Untouched, outside, Holding
<1>1. CASE LoopCheck \/ PollEmpty \/ Reconnect \/ Recovered
  BY <1>1 DEF LoopCheck, PollEmpty, Reconnect, Recovered
<1>2. CASE Take
  BY <1>2, TailFacts DEF Take
<1>3. CASE MarkSent \/ SendReturns \/ SendRaises
  <2>1. /\ UNCHANGED <<fifo, current, caller>> /\ worker \in {"taken", "sending"}
        /\ \E s \in Statuses : status' = [status EXCEPT ![current] = s]
                               /\ (worker' = "sending" => s = "SENT")
        /\ worker' # "taken"
    BY <1>3 DEF MarkSent, SendReturns, SendRaises, Statuses
  <2>2. current \in Cmds /\ caller[current] \in Entered
    BY <2>1
  <2> QED  BY <2>1, <2>2 DEF Entered
<1>4. CASE Finish
  BY <1>4 DEF Finish
<1>5. CASE DrainOnError \/ DrainOnShutdown
  <2>1. CASE UNCHANGED <<fifo, status>>
    BY <1>5, <2>1 DEF DrainOnError, DrainOnShutdown, threads
  <2>2. CASE /\ fifo # <<>> /\ fifo' = Tail(fifo) /\ UNCHANGED worker
             /\ \E s \in {"FAILED", "REJECTED"} : status' = [status EXCEPT ![Head(fifo)] = s]
    <3>1. UNCHANGED <<caller, current>>
      BY <1>5 DEF DrainOnError, DrainOnShutdown, threads
    <3>2. /\ Head(fifo) \in Cmds /\ Head(fifo) # current /\ caller[Head(fifo)] \in Entered
          /\ \A n \in DOMAIN fifo' : fifo'[n] # Head(fifo) /\ \E m \in DOMAIN fifo : fifo'[n] = fifo[m]
      BY <2>2, TailFacts
    <3> QED  BY <2>2, <3>1, <3>2 DEF Entered
  <2> QED  BY <1>5, <2>1, <2>2 DEF DrainOnError, DrainOnShutdown, threads
<1>6. CASE Signal \/ SetState \/ Join
  BY <1>6 DEF Signal, SetState, Join, threads
<1> QED  BY <1>1, <1>2, <1>3, <1>4, <1>5, <1>6 DEF Work, Stop

\* The invariant the refinement rests on.
THEOREM ServiceInvTheorem == Spec => []ServiceInv
<1>1. Init => Untouched
  BY DEF Init, Untouched
<1>2. ServiceInv /\ [Next]_vars => Untouched'
  <2> SUFFICES ASSUME ServiceInv, [Next]_vars PROVE Untouched'
    OBVIOUS
  <2>1. CASE UNCHANGED vars
    BY <2>1 DEF vars, ServiceInv, Untouched
  <2>2. ASSUME NEW c \in Cmds, Call(c) \/ Poll(c) PROVE Untouched'
    BY <2>2, CallerUntouched DEF Call, Poll
  <2> QED  BY <2>1, <2>2, SilentAssumption, EngineUntouched DEF Next
<1> QED  BY <1>1, <1>2, QueueTheorem, PTL DEF Spec, ServiceInv

-----------------------------------------------------------------------------
(* The steps of the service.  Doing and Outcome are what the refinement    *)
(* mapping makes of the engine's state.                                    *)

Doing   == IF current # NoCmd /\ status[current] \notin Settled THEN current ELSE NoCmd
Outcome == [c \in Cmds |-> IF status[c] \in Settled THEN status[c] ELSE "none"]

\* A command that has got its status from the engine has its outcome.
LEMMA OutcomeStep ==
  ASSUME ServiceInv, NEW c \in Cmds, NEW s \in Settled, status' = [status EXCEPT ![c] = s]
  PROVE  Outcome' = [Outcome EXCEPT ![c] = s]
  BY DEF Outcome, ServiceInv, QueueInv, Shape

\* A caller is accepted or refused, or does nothing the service knows of.
LEMMA CallRefines ==
  ASSUME ServiceInv, NEW c \in Cmds, Call(c)
  PROVE  [Service!Next]_(Service!svc)
<1>1. UNCHANGED current
  BY DEF Call, Invalid, CheckState, Enqueue, Wake, TimeOut
<1>2. CASE UNCHANGED <<fifo, status>>
  BY <1>1, <1>2 DEF Service!svc
<1>3. ASSUME caller[c] \in {"new", "checked"}
      PROVE  Service!Open(c) /\ (current \in Cmds => current # c) /\ Outcome[c] = "none"
  <2>1. status[c] = "PENDING" /\ (current \in Cmds => current # c) /\ c # NoCmd
    BY <1>3, CmdsAssumption DEF ServiceInv, QueueInv, OnePlace, Untouched, Entered
  <2>2. \A n \in DOMAIN fifo : fifo[n] # c
    BY <1>3 DEF ServiceInv, QueueInv, OnePlace, Entered
  <2>3. Outcome[c] = "none" /\ Doing # c
    BY <2>1 DEF Outcome, Doing, Settled, ServiceInv, QueueInv, Shape
  <2> QED  BY <2>1, <2>2, <2>3 DEF Service!Open, Outcome, Doing
<1>4. CASE caller[c] \in {"new", "checked"} /\ UNCHANGED fifo /\ Refuse(c)
  <2>1. Outcome' = [Outcome EXCEPT ![c] = "REJECTED"]
    BY <1>4, OutcomeStep DEF Refuse, Settled
  <2>2. Doing' = Doing
    BY <1>1, <1>3, <1>4 DEF Doing, Refuse, ServiceInv, QueueInv, Shape
  <2>3. Service!Refuse(c)
    BY <1>3, <1>4, <2>1, <2>2 DEF Service!Refuse, Service!Settle, Doing, Outcome
  <2> QED  BY <2>3 DEF Service!Next
<1>5. CASE /\ caller[c] = "checked" /\ Len(fifo) < Capacity
           /\ fifo' = Append(fifo, c) /\ UNCHANGED status
  <2>1. Service!Accept(c)
    BY <1>1, <1>3, <1>5 DEF Service!Accept
  <2> QED  BY <2>1 DEF Service!Next
<1> QED  BY <1>2, <1>4, <1>5 DEF Call, Invalid, CheckState, Enqueue, Wake, TimeOut

\* Take begins the oldest command, the end of send_command ends it, a drain
\* drops the oldest; the worker's other steps are its own affair.
LEMMA WorkRefines ==
  ASSUME ServiceInv, Work \/ Stop
  PROVE  [Service!Next]_(Service!svc)
<1> USE CmdsAssumption
<1>1. CASE /\ UNCHANGED <<fifo, status>>
           /\ UNCHANGED current \/ (current' = NoCmd /\ worker = "finish")
  <2>1. Doing' = Doing
    BY <1>1 DEF Doing, ServiceInv, QueueInv, OnePlace, Decided
  <2> QED  BY <1>1, <2>1 DEF Service!svc, Doing
<1>2. CASE Take
  <2>1. /\ fifo # <<>> /\ fifo' = Tail(fifo) /\ current' = Head(fifo) /\ UNCHANGED status
        /\ current = NoCmd /\ Head(fifo) \in Cmds /\ status[Head(fifo)] = "PENDING"
    BY <1>2, TailFacts DEF Take, outside, ServiceInv, QueueInv, Shape, OnePlace, Holding, Untouched
  <2>2. Service!BeginNext
    BY <2>1 DEF Service!BeginNext, Settled
  <2> QED  BY <2>2 DEF Service!Next
<1>3. CASE MarkSent
  <2>1. /\ current \in Cmds /\ UNCHANGED <<fifo, current>> /\ status[current] = "PENDING"
        /\ status' = [status EXCEPT ![current] = "SENT"] /\ status \in [Cmds -> Statuses]
    BY <1>3 DEF MarkSent, ServiceInv, QueueInv, Shape, OnePlace, Holding, Untouched
  <2>2. Doing' = Doing /\ Outcome' = Outcome
    BY <2>1 DEF Doing, Outcome, Settled
  <2> QED  BY <2>1, <2>2 DEF Service!svc, Doing, Outcome
<1>4. CASE SendReturns \/ SendRaises
  <2>1. /\ current \in Cmds /\ UNCHANGED <<fifo, current>> /\ status[current] = "SENT"
        /\ status \in [Cmds -> Statuses]
    BY <1>4 DEF SendReturns, SendRaises, ServiceInv, QueueInv, Shape, OnePlace, Holding, Untouched
  <2>2. PICK s \in {"OK", "FAILED"} : status' = [status EXCEPT ![current] = s]
    BY <1>4 DEF SendReturns, SendRaises
  <2>3. Outcome' = [Outcome EXCEPT ![current] = s]
    BY <2>1, <2>2, OutcomeStep DEF Settled
  <2>4. Doing = current /\ Doing # NoCmd /\ Doing' = NoCmd
    BY <2>1, <2>2 DEF Doing, Settled
  <2>5. Service!End
    BY <2>1, <2>3, <2>4 DEF Service!End, Service!Settle, Doing, Outcome
  <2> QED  BY <2>5 DEF Service!Next
<1>5. CASE /\ DrainOnError \/ DrainOnShutdown
           /\ fifo # <<>> /\ fifo' = Tail(fifo)
           /\ \E s \in {"FAILED", "REJECTED"} : status' = [status EXCEPT ![Head(fifo)] = s]
  <2>1. PICK s \in {"FAILED", "REJECTED"} : status' = [status EXCEPT ![Head(fifo)] = s]
    BY <1>5
  <2>2. Head(fifo) \in Cmds /\ Head(fifo) # current /\ UNCHANGED current
    BY <1>5, TailFacts
       DEF DrainOnError, DrainOnShutdown, outside, threads, ServiceInv, QueueInv, Shape, OnePlace
  <2>3. Outcome' = [Outcome EXCEPT ![Head(fifo)] = s]
    BY <2>1, <2>2, OutcomeStep DEF Settled
  <2>4. Doing' = Doing
    BY <2>1, <2>2 DEF Doing, ServiceInv, QueueInv, Shape
  <2>5. Service!DropNext
    BY <1>5, <2>3, <2>4 DEF Service!DropNext, Service!Settle, Doing, Outcome
  <2> QED  BY <2>5 DEF Service!Next
<1>6. CASE LoopCheck \/ PollEmpty \/ Reconnect \/ Recovered \/ Finish \/ Signal \/ SetState \/ Join
  BY <1>1, <1>6 DEF LoopCheck, PollEmpty, Reconnect, Recovered, Finish, Signal, SetState, Join,
                    threads, outside
<1>7. CASE DrainOnError \/ DrainOnShutdown
  BY <1>1, <1>5, <1>7 DEF DrainOnError, DrainOnShutdown, outside, threads
<1> QED  BY <1>2, <1>3, <1>4, <1>6, <1>7 DEF Work, Stop

\* The engine keeps its promise, whatever its threads do.
THEOREM RefinementTheorem == Spec => ImplementsService
<1>1. Init => Service!Init
  BY DEF Init, Service!Init, Settled
<1>2. ServiceInv /\ [Next]_vars => [Service!Next]_(Service!svc)
  <2> SUFFICES ASSUME ServiceInv, [Next]_vars PROVE [Service!Next]_(Service!svc)
    OBVIOUS
  <2>1. CASE UNCHANGED vars
    BY <2>1 DEF vars, Service!svc
  <2>2. ASSUME NEW c \in Cmds, Call(c) \/ Poll(c) PROVE [Service!Next]_(Service!svc)
    BY <2>2, CallRefines DEF Call, Poll
  <2> QED  BY <2>1, <2>2, SilentAssumption, WorkRefines DEF Next
<1> QED  BY <1>1, <1>2, ServiceInvTheorem, PTL DEF Spec, ImplementsService, Service!Spec

=============================================================================
