-------------------------- MODULE JobIntakeProofs --------------------------
(***************************************************************************)
(* Proofs about JobIntake, for any set of job ids, any number of tickets,  *)
(* messages, cancels and starts: what the files of the jobs promise, how   *)
(* often a job is printed, and that a cancelled job does not come back.    *)
(***************************************************************************)
EXTENDS JobIntake, SequenceTheorems, FiniteSetTheorems, TLAPS

-----------------------------------------------------------------------------
(* The inductive invariant.                                                *)

Before == {"none"} \cup Waiting
Slotted == Running \cup Ending \cup Stuck
Points == Before \cup Slotted \cup {"completing", "COMPLETED", "FAILED", "CANCELLED"}

\* Ticket m of job i has been through submit or recover.
Placed(m, i) == id[m] = i /\ at[m] \notin Before

Shape ==
    /\ id \in [Tickets -> Ids \cup {NoId}] /\ at \in [Tickets -> Points]
    /\ disk \in [Ids -> Statuses \cup {"none"}]
    /\ found \subseteq Ids /\ queue \in Seq(Tickets)
    /\ \A k \in Tickets : at[k] # "none" <=> id[k] \in Ids

Sent == {"printed", "overtaken", "completing"}

\* A ticket whose lines are all sent had no line that is refused.
SentAll == \A k \in Tickets : at[k] \in Sent => Refused(url[id[k]]) = {}

\* The file of a running ticket is resumable unless another one wrote it ...
Kept ==
    \A k \in Tickets : at[k] \in Running =>
        \/ disk[id[k]] \in Resumable
        \/ \E m \in Tickets \ {k} : Placed(m, id[k])
        \/ LoadFromString(url[id[k]]) = <<>>

\* ... and so is one that recover has read and not yet placed.
FoundKept == \A i \in found : disk[i] \in Resumable \/ \E m \in Tickets : Placed(m, i)

IntakeInv == Shape /\ SentAll /\ Kept /\ FoundKept /\ CompletedMeansAllSent

-----------------------------------------------------------------------------
(* The queue.                                                              *)

LEMMA RemoveAtFacts ==
  ASSUME NEW S, NEW s \in Seq(S), NEW n \in DOMAIN s
  PROVE  RemoveAt(s, n) \in Seq(S)
<1>1. n \in 1..Len(s) /\ Len(s) \in Nat
  BY LenProperties
<1>2. SubSeq(s, 1, n - 1) \in Seq(S)
  BY <1>1, SubSeqProperties
<1>3. SubSeq(s, n + 1, Len(s)) \in Seq(S)
  BY <1>1, SubSeqProperties
<1> QED  BY <1>2, <1>3, ConcatProperties DEF RemoveAt

\* Put and HandOver keep a queue of tickets.
LEMMA QueueStep ==
  ASSUME queue \in Seq(Tickets), NEW k \in Tickets, Put(k) \/ HandOver
  PROVE  queue' \in Seq(Tickets)
<1>1. CASE Put(k)
  BY <1>1, AppendProperties DEF Put
<1>2. CASE HandOver
  BY <1>2, HeadTailProperties DEF HandOver
<1> QED  BY <1>1, <1>2

-----------------------------------------------------------------------------
(* One place for every ticket: the slot, or one place in the queue.        *)

Lined ==
    /\ IsInjective(queue)
    /\ \A n \in DOMAIN queue : at[queue[n]] = "QUEUED"
    /\ active \in Tickets \cup {NoTicket}
    /\ active \in Tickets => at[active] \in Slotted
    /\ \A n \in DOMAIN queue : queue[n] # active

-----------------------------------------------------------------------------
(* The steps.                                                              *)

\* The process comes and goes; only the files stay.
LEMMA ProcessStep ==
  ASSUME IntakeInv, Boot \/ Stop \/ Exit
  PROVE  IntakeInv'
<1>1. CASE Boot \/ Stop
  BY <1>1 DEF Boot, Stop, tickets, manager, IntakeInv, Shape, SentAll, Kept, FoundKept, Placed,
              CompletedMeansAllSent
<1>2. CASE Exit
  BY <1>2, EmptySeq, IdsAssumption
     DEF Exit, IntakeInv, Shape, SentAll, Sent, Kept, FoundKept, CompletedMeansAllSent,
              Points, Before, Slotted, Running, Ending, Stuck
<1> QED  BY <1>1, <1>2

\* recover finds resumable files, and places each of them.
LEMMA RecoveryStep ==
  ASSUME IntakeInv, Recovery
  PROVE  IntakeInv'
<1>1. CASE RecoverRead \/ RecoverLock \/ RecoverEnd
  BY <1>1 DEF RecoverRead, RecoverLock, RecoverEnd, tickets, manager, IntakeInv, Shape, SentAll,
              Kept, FoundKept, Placed, CompletedMeansAllSent
<1>2. ASSUME NEW i \in Ids, RecoverPlace(i) PROVE IntakeInv'
  <2>1. i \in found /\ found' = found \ {i} /\ UNCHANGED url
    BY <1>2 DEF RecoverPlace
  <2>2. ASSUME NEW k \in Tickets, at[k] = "none", Put(k), UNCHANGED disk,
               id' = [id EXCEPT ![k] = i], at' = [at EXCEPT ![k] = "QUEUED"]
        PROVE  IntakeInv'
    <3>1. Shape'
      BY <2>1, <2>2, QueueStep DEF IntakeInv, Shape, Points, Slotted, Running, Ending, Stuck
    <3>2. \A m \in Tickets, j \in Ids : Placed(m, j) => m # k /\ Placed(m, j)'
      BY <2>2 DEF IntakeInv, Shape, Placed, Before
    <3>3. SentAll' /\ CompletedMeansAllSent'
      BY <2>1, <2>2 DEF IntakeInv, Shape, SentAll, CompletedMeansAllSent, Sent
    <3>4. Kept'
      BY <2>1, <2>2, <3>2 DEF IntakeInv, Shape, Kept, FoundKept, Slotted, Running, Ending, Stuck
    <3>5. FoundKept'
      BY <2>1, <2>2, <3>2 DEF IntakeInv, Shape, FoundKept
    <3> QED  BY <3>1, <3>3, <3>4, <3>5 DEF IntakeInv
  <2>3. CASE /\ LoadFromString(url[i]) = <<>> /\ Save(i, "FAILED")
             /\ UNCHANGED <<tickets, manager, history>>
    <3>1. disk' = [disk EXCEPT ![i] = "FAILED"] /\ UNCHANGED <<id, at, queue>>
      BY <2>3 DEF Save, tickets, manager
    <3>2. Shape' /\ SentAll' /\ CompletedMeansAllSent'
      BY <2>1, <3>1 DEF IntakeInv, Shape, SentAll, CompletedMeansAllSent, Statuses
    <3>3. Kept'
      BY <2>1, <2>3, <3>1 DEF IntakeInv, Shape, Kept, Placed, Slotted, Running, Ending, Stuck
    <3>4. FoundKept'
      BY <2>1, <3>1 DEF IntakeInv, Shape, FoundKept, Placed
    <3> QED  BY <3>2, <3>3, <3>4 DEF IntakeInv
  <2> QED  BY <1>2, <2>2, <2>3 DEF RecoverPlace, NextTicket, Fresh
<1> QED  BY <1>1, <1>2 DEF Recovery

\* A message makes a ticket, which is loaded or dropped.
LEMMA ComeStep ==
  ASSUME IntakeInv,
         \/ \E i \in Ids : \E raw \in Payloads : HandleStartJob(i, raw)
         \/ \E k \in Tickets : Load(k)
  PROVE  IntakeInv'
<1>1. ASSUME NEW k \in Tickets, NEW i \in Ids \cup {NoId}, NEW p \in Before,
             at[k] \in Before, p # "none" <=> i \in Ids,
             id' = [id EXCEPT ![k] = i], at' = [at EXCEPT ![k] = p],
             UNCHANGED <<url, disk, found, queue>>
      PROVE  IntakeInv'
  <2>1. Shape'
    BY <1>1 DEF IntakeInv, Shape, Points
  <2>2. \A m \in Tickets, j \in Ids : Placed(m, j) => Placed(m, j)'
    BY <1>1 DEF IntakeInv, Shape, Placed
  <2>3. \A m \in Tickets : at'[m] \notin Before => at'[m] = at[m] /\ id'[m] = id[m] /\ id[m] \in Ids
    BY <1>1 DEF IntakeInv, Shape, Before
  <2>4. SentAll' /\ CompletedMeansAllSent'
    BY <1>1, <2>3 DEF IntakeInv, SentAll, CompletedMeansAllSent, Before, Waiting, Sent
  <2>5. Kept'
    BY <1>1, <2>2, <2>3 DEF IntakeInv, Kept, Before, Waiting, Slotted, Running, Ending, Stuck
  <2>6. FoundKept'
    BY <1>1, <2>2 DEF IntakeInv, Shape, FoundKept
  <2> QED  BY <2>1, <2>4, <2>5, <2>6 DEF IntakeInv
<1>2. ASSUME NEW i \in Ids, NEW raw \in Payloads, HandleStartJob(i, raw) PROVE IntakeInv'
  <2>1. CASE raw.parses /\ raw.mine
    <3>1. PICK k \in Tickets : /\ NextTicket(k) /\ id' = [id EXCEPT ![k] = i]
                               /\ at' = [at EXCEPT ![k] = "loading"]
      BY <1>2, <2>1 DEF HandleStartJob
    <3>2. at[k] = "none" /\ UNCHANGED <<url, disk, found, queue>>
      BY <1>2, <3>1 DEF HandleStartJob, NextTicket, Fresh, manager
    <3> QED  BY <1>1, <3>1, <3>2 DEF Before, Waiting
  <2>2. CASE ~(raw.parses /\ raw.mine)
    BY <1>2, <2>2 DEF HandleStartJob, tickets, manager, IntakeInv, Shape, SentAll, Kept,
                      FoundKept, Placed, CompletedMeansAllSent
  <2> QED  BY <2>1, <2>2
<1>3. ASSUME NEW k \in Tickets, Load(k) PROVE IntakeInv'
  <2>1. CASE at' = [at EXCEPT ![k] = "loaded"] /\ UNCHANGED id
    <3>1. id' = [id EXCEPT ![k] = id[k]] /\ id[k] \in Ids
      BY <1>3, <2>1 DEF Load, IntakeInv, Shape
    <3> QED  BY <1>1, <1>3, <2>1, <3>1 DEF Load, manager, Before, Waiting
  <2>2. CASE at' = [at EXCEPT ![k] = "none"] /\ id' = [id EXCEPT ![k] = NoId]
    BY <1>1, <1>3, <2>2, IdsAssumption DEF Load, manager, Before, Waiting
  <2> QED  BY <1>3, <2>1, <2>2 DEF Load
<1> QED  BY <1>2, <1>3

\* A placed or loaded ticket k goes on to p and its file says s.
LEMMA SaveStep ==
  ASSUME IntakeInv, NEW k \in Tickets, NEW p \in Points \ Before,
         NEW s \in Statuses, id[k] \in Ids, at' = [at EXCEPT ![k] = p],
         disk' = [disk EXCEPT ![id[k]] = s], UNCHANGED <<url, found, id>>,
         queue' \in Seq(Tickets),
         p \in Sent => Refused(url[id[k]]) = {},
         s = "COMPLETED" => Refused(url[id[k]]) = {},
         p \in Running => s \in Resumable
  PROVE  IntakeInv'
<1>1. Shape'
  BY DEF IntakeInv, Shape, Before
<1>2. id[k] \in Ids /\ Placed(k, id[k])'
  BY DEF IntakeInv, Shape, Placed
<1>3. \A m \in Tickets, j \in Ids : Placed(m, j) => Placed(m, j)'
  BY DEF IntakeInv, Shape, Placed
<1>4. SentAll' /\ CompletedMeansAllSent'
  BY <1>2 DEF IntakeInv, Shape, SentAll, CompletedMeansAllSent
<1>5. Kept'
  BY <1>2, <1>3 DEF IntakeInv, Shape, Kept, Slotted, Running, Ending, Stuck
<1>6. FoundKept'
  BY <1>2, <1>3 DEF IntakeInv, Shape, FoundKept
<1> QED  BY <1>1, <1>4, <1>5, <1>6 DEF IntakeInv

\* A placed ticket k goes on to p, its file stays.
LEMMA MoveStep ==
  ASSUME IntakeInv, NEW k \in Tickets, NEW p \in Points \ Before,
         at[k] \in Slotted, at' = [at EXCEPT ![k] = p],
         UNCHANGED <<url, disk, found, id>>, queue' \in Seq(Tickets),
         p \in Sent => Refused(url[id[k]]) = {}, p \in Running => at[k] \in Running
  PROVE  IntakeInv'
<1>1. Shape'
  BY DEF IntakeInv, Shape, Points, Slotted, Running, Ending, Stuck
<1>2. \A m \in Tickets, j \in Ids : Placed(m, j) => Placed(m, j)'
  BY DEF IntakeInv, Shape, Placed, Before, Waiting
<1>3. SentAll' /\ CompletedMeansAllSent'
  BY DEF IntakeInv, Shape, SentAll, CompletedMeansAllSent
<1>4. Kept'
  BY <1>2 DEF IntakeInv, Shape, Kept, Slotted, Running, Ending, Stuck
<1>5. FoundKept'
  BY <1>2 DEF IntakeInv, Shape, FoundKept
<1> QED  BY <1>1, <1>3, <1>4, <1>5 DEF IntakeInv

\* submit, the executor and a control call write the file of their own ticket.
LEMMA TicketStep ==
  ASSUME IntakeInv, NEW k \in Tickets, Submit(k) \/ Executor(k) \/ Remote(k)
  PROVE  IntakeInv'
<1> USE DEF Save, Points, Before, Waiting, Slotted, Running, Ending, Stuck, Sent, Resumable, Statuses
<1>1. /\ queue \in Seq(Tickets) /\ (at[k] # "none" => id[k] \in Ids)
      /\ (at[k] \in Sent => Refused(url[id[k]]) = {})
  BY DEF IntakeInv, Shape, SentAll
<1>2. CASE Submit(k)
  BY <1>1, <1>2, QueueStep, SaveStep DEF Submit
<1>3. CASE BeginPrint(k)
  BY <1>1, <1>3, SaveStep DEF BeginPrint, manager
<1>4. CASE Fail(k)
  BY <1>1, <1>4, QueueStep, SaveStep DEF Fail, Failing
<1>5. CASE SaveCompleted(k)
  BY <1>1, <1>5, SaveStep DEF SaveCompleted, manager
<1>6. CASE SendLines(k)
  <2>1. PICK p \in {"printed", "overtaken"} : at' = [at EXCEPT ![k] = p]
    BY <1>6 DEF SendLines
  <2>2. p = "printed" => at[k] # "cancelled"
    BY <1>1, <1>6, <2>1 DEF SendLines, IntakeInv, Shape
  <2> QED  BY <1>1, <1>6, <2>1, <2>2, MoveStep DEF SendLines, manager
<1>7. CASE Complete(k)
  BY <1>1, <1>7, QueueStep, MoveStep DEF Complete
<1>8. CASE Hold(k) \/ Pause(k) \/ Resume(k)
  BY <1>1, <1>8, SaveStep DEF Hold, Pause, Resume, manager
<1>9. CASE EndCancelled(k) \/ FailHeld(k)
  BY <1>1, <1>9, QueueStep, SaveStep DEF EndCancelled, FailHeld
<1>10. CASE Undo(k)
  BY <1>1, <1>10, SaveStep DEF Undo, manager
<1>11. CASE LeaveSlot(k)
  BY <1>1, <1>11, MoveStep DEF LeaveSlot, manager
<1> QED
  BY <1>2, <1>3, <1>4, <1>5, <1>6, <1>7, <1>8, <1>9, <1>10, <1>11 DEF Executor, Remote

\* What a cancel does: to nobody, to the active ticket, or to a waiting one.
LEMMA CancelCases ==
  ASSUME IntakeInv, Lined, NEW i \in Ids, Cancel(i)
  PROVE  /\ UNCHANGED <<phase, url, found, id, active, starts, came, done, twice>>
         /\ \/ UNCHANGED <<queue, disk, at, withdrawn>>
            \/ /\ active \in Tickets /\ id[active] = i /\ at[active] \in Slotted
               /\ \E p \in {"cancelled", "halting", "kept"} : at' = [at EXCEPT ![active] = p]
               /\ disk' = [disk EXCEPT ![i] = "CANCELLED"]
               /\ UNCHANGED <<queue, withdrawn>>
            \/ \E n \in DOMAIN queue :
                 /\ queue[n] \in Tickets /\ id[queue[n]] = i /\ at[queue[n]] = "QUEUED"
                 /\ queue' = RemoveAt(queue, n)
                 /\ at' = [at EXCEPT ![queue[n]] = "CANCELLED"]
                 /\ disk' = [disk EXCEPT ![i] = "CANCELLED"]
                 /\ withdrawn' = IF Live(i) = {queue[n]} /\ i \notin found
                                 THEN withdrawn \cup {i} ELSE withdrawn
<1>1. UNCHANGED <<phase, url, found, id, active, starts, came, done, twice>>
  BY DEF Cancel
<1>2. CASE active # NoTicket /\ id[active] = i
  <2>1. CallOff /\ active \in Tickets /\ at[active] \in Slotted /\ UNCHANGED <<queue, withdrawn>>
    BY <1>2 DEF Cancel, CallOff, Lined
  <2>2. CASE UNCHANGED <<at, disk>>
    BY <1>1, <2>1, <2>2
  <2>3. CASE ~UNCHANGED <<at, disk>>
    <3>1. /\ Save(id[active], "CANCELLED")
          /\ at' = [at EXCEPT ![active] = IF @ \in {"PRINTING", "PAUSED"} THEN "cancelled"
                                         ELSE IF @ = "left" THEN "kept" ELSE "halting"]
      BY <2>1, <2>3 DEF CallOff
    <3> QED  BY <1>1, <1>2, <2>1, <3>1 DEF Save
  <2> QED  BY <2>2, <2>3
<1>3. CASE ~(active # NoTicket /\ id[active] = i)
  <2>1. Withdraw(i)
    BY <1>3 DEF Cancel
  <2>2. CASE Queued(i) = {}
    BY <1>1, <2>1, <2>2 DEF Withdraw
  <2>3. CASE Queued(i) # {}
    <3>1. PICK n \in Queued(i) :
            /\ queue' = RemoveAt(queue, n) /\ at' = [at EXCEPT ![queue[n]] = "CANCELLED"]
            /\ Save(i, "CANCELLED")
            /\ withdrawn' = IF Live(i) = {queue[n]} /\ i \notin found
                            THEN withdrawn \cup {i} ELSE withdrawn
      BY <2>1, <2>3 DEF Withdraw
    <3>2. n \in DOMAIN queue /\ id[queue[n]] = i /\ queue[n] \in Tickets /\ at[queue[n]] = "QUEUED"
      BY <3>1, ElementOfSeq, LenProperties DEF Queued, IntakeInv, Shape, Lined
    <3> QED  BY <1>1, <3>1, <3>2 DEF Save
  <2> QED  BY <2>2, <2>3
<1> QED  BY <1>2, <1>3

\* A cancel writes the file of the ticket it calls off or takes out.
LEMMA CancelStep ==
  ASSUME IntakeInv, Lined, NEW i \in Ids, Cancel(i)
  PROVE  IntakeInv'
<1> USE DEF Points, Before, Waiting, Slotted, Running, Ending, Stuck, Sent, Statuses, Resumable
<1>0. UNCHANGED <<url, found, id>> /\ queue \in Seq(Tickets)
  BY CancelCases DEF IntakeInv, Shape
<1>1. CASE UNCHANGED <<queue, disk, at, withdrawn>>
  BY <1>0, <1>1 DEF IntakeInv, Shape, SentAll, Kept, FoundKept, Placed, CompletedMeansAllSent
<1>2. ASSUME NEW p \in {"cancelled", "halting", "kept"}, active \in Tickets, id[active] = i,
             at' = [at EXCEPT ![active] = p], disk' = [disk EXCEPT ![i] = "CANCELLED"],
             UNCHANGED queue
      PROVE  IntakeInv'
  BY <1>0, <1>2, SaveStep
<1>3. ASSUME NEW n \in DOMAIN queue, queue[n] \in Tickets, id[queue[n]] = i,
             queue' = RemoveAt(queue, n), at' = [at EXCEPT ![queue[n]] = "CANCELLED"],
             disk' = [disk EXCEPT ![i] = "CANCELLED"]
      PROVE  IntakeInv'
  <2>1. queue' \in Seq(Tickets)
    BY <1>0, <1>3, RemoveAtFacts
  <2> QED  BY <1>0, <1>3, <2>1, SaveStep
<1> QED  BY <1>1, <1>2, <1>3, CancelCases

-----------------------------------------------------------------------------
(* The places.                                                             *)

\* The ends of a queue: what is put behind it, and what is left behind its head.
LEMMA EndsFacts ==
  ASSUME NEW s \in Seq(Tickets)
  PROVE  /\ \A k \in Tickets : /\ DOMAIN Append(s, k) = 1..(Len(s) + 1)
                               /\ Append(s, k)[Len(s) + 1] = k
                               /\ \A n \in DOMAIN s : Append(s, k)[n] = s[n]
         /\ DOMAIN s = 1..Len(s) /\ Len(s) \in Nat
         /\ \A n \in DOMAIN s : s[n] \in Tickets
         /\ s # <<>> => /\ Head(s) = s[1] /\ 1 \in DOMAIN s
                        /\ \A n \in DOMAIN Tail(s) : n + 1 \in DOMAIN s /\ Tail(s)[n] = s[n + 1]
                        /\ DOMAIN Tail(s) \subseteq Nat \ {0}
<1>1. DOMAIN s = 1..Len(s) /\ Len(s) \in Nat /\ \A n \in DOMAIN s : s[n] \in Tickets
  BY LenProperties, ElementOfSeq
<1>2. \A k \in Tickets : /\ DOMAIN Append(s, k) = 1..(Len(s) + 1)
                         /\ Append(s, k)[Len(s) + 1] = k
                         /\ \A n \in DOMAIN s : Append(s, k)[n] = s[n]
  BY <1>1, AppendProperties, LenProperties
<1>3. ASSUME s # <<>>
      PROVE  /\ Head(s) = s[1] /\ 1 \in DOMAIN s
             /\ \A n \in DOMAIN Tail(s) : n + 1 \in DOMAIN s /\ Tail(s)[n] = s[n + 1]
             /\ DOMAIN Tail(s) \subseteq Nat \ {0}
  <2>1. Len(s) # 0 /\ Len(s) >= 1
    BY <1>1, <1>3, EmptySeq
  <2>2. Tail(s) \in Seq(Tickets) /\ Len(Tail(s)) = Len(s) - 1
    BY <1>3, HeadTailProperties
  <2>3. \A n \in 1..Len(Tail(s)) : Tail(s)[n] = s[n + 1]
    BY <1>3, HeadTailProperties
  <2>4. DOMAIN Tail(s) = 1..(Len(s) - 1)
    BY <2>2, LenProperties
  <2> QED  BY <1>1, <2>1, <2>2, <2>3, <2>4
<1> QED  BY <1>1, <1>2, <1>3

\* A ticket taken out of the middle: the others stay, each once.
LEMMA RemoveAtElements ==
  ASSUME NEW s \in Seq(Tickets), NEW n \in DOMAIN s, IsInjective(s)
  PROVE  /\ IsInjective(RemoveAt(s, n))
         /\ \A m \in DOMAIN RemoveAt(s, n) :
                \E l \in DOMAIN s : l # n /\ RemoveAt(s, n)[m] = s[l]
<1> DEFINE a == SubSeq(s, 1, n - 1)
           b == SubSeq(s, n + 1, Len(s))
           r == RemoveAt(s, n)
           Old(m) == IF m < n THEN m ELSE m + 1
<1>1. n \in 1..Len(s) /\ Len(s) \in Nat /\ DOMAIN s = 1..Len(s)
  BY LenProperties
<1>2. a \in Seq(Tickets) /\ Len(a) = n - 1 /\ \A i \in 1..(n - 1) : a[i] = s[i]
  BY <1>1, SubSeqProperties
<1>3. b \in Seq(Tickets) /\ Len(b) = Len(s) - n /\ \A i \in 1..(Len(s) - n) : b[i] = s[n + i]
  BY <1>1, SubSeqProperties
<1>4. r = a \o b
  BY DEF RemoveAt
<1> HIDE DEF a, b, r
<1>5. r \in Seq(Tickets) /\ Len(r) = Len(s) - 1
  <2>1. a \o b \in Seq(Tickets) /\ Len(a \o b) = Len(a) + Len(b)
    BY <1>2, <1>3, ConcatProperties
  <2> QED  BY <1>1, <1>2, <1>3, <1>4, <2>1
<1>c. \A i \in 1..(Len(a) + Len(b)) : r[i] = IF i <= Len(a) THEN a[i] ELSE b[i - Len(a)]
  <2>1. \A i \in 1..(Len(a) + Len(b)) : (a \o b)[i] = IF i <= Len(a) THEN a[i] ELSE b[i - Len(a)]
    BY <1>2, <1>3, ConcatProperties
  <2> QED  BY <1>4, <2>1
<1>6. DOMAIN r = 1..(Len(s) - 1)
  BY <1>5, LenProperties
<1>7. ASSUME NEW m \in DOMAIN r PROVE Old(m) \in DOMAIN s /\ Old(m) # n /\ r[m] = s[Old(m)]
  <2>1. CASE m < n
    <3>1. r[m] = a[m]
      <4>1. m \in 1..(Len(a) + Len(b)) /\ m <= Len(a)
        BY <1>1, <1>2, <1>3, <1>6, <2>1
      <4> QED  BY <1>c, <4>1
    <3> QED  BY <1>1, <1>2, <1>6, <2>1, <3>1
  <2>2. CASE ~(m < n)
    <3>1. r[m] = b[m - (n - 1)]
      BY <1>1, <1>2, <1>3, <1>6, <1>c, <2>2
    <3>2. m - (n - 1) \in 1..(Len(s) - n) /\ n + (m - (n - 1)) = m + 1
      BY <1>1, <1>6, <2>2
    <3>3. r[m] = s[m + 1]
      BY <1>3, <3>1, <3>2
    <3> QED  BY <1>1, <1>6, <2>2, <3>3
  <2> QED  BY <2>1, <2>2
<1>8. IsInjective(r)
  <2> SUFFICES ASSUME NEW m \in DOMAIN r, NEW l \in DOMAIN r, r[m] = r[l] PROVE m = l
    BY DEF IsInjective
  <2>1. s[Old(m)] = s[Old(l)] /\ Old(m) \in DOMAIN s /\ Old(l) \in DOMAIN s
    BY <1>7
  <2>2. Old(m) = Old(l)
    BY <2>1 DEF IsInjective
  <2> QED  BY <1>1, <1>6, <2>2
<1> QED  BY <1>7, <1>8 DEF r

\* A ticket that had no place is given one.
LEMMA PutLined ==
  ASSUME Shape, Lined, NEW k \in Tickets, at[k] \in {"none", "loaded"}, Put(k),
         at' = [at EXCEPT ![k] = "QUEUED"]
  PROVE  Lined'
<1>0. queue \in Seq(Tickets) /\ at \in [Tickets -> Points] /\ NoTicket \notin Tickets
  BY DEF Shape, NoTicket, Tickets
<1>1. /\ DOMAIN queue = 1..Len(queue) /\ Len(queue) \in Nat
      /\ \A n \in DOMAIN queue : queue[n] \in Tickets /\ queue[n] # k
      /\ active # k
  BY <1>0, EndsFacts DEF Lined, Slotted, Running, Ending, Stuck
<1>2. \A m \in Tickets : at'[m] = IF m = k THEN "QUEUED" ELSE at[m]
  BY <1>0
<1>3. CASE active = NoTicket
  <2>1. active' = k /\ queue' = queue
    BY <1>3 DEF Put
  <2> QED  BY <1>1, <1>2, <2>1 DEF Lined, Slotted, Running, Ending, Stuck
<1>4. CASE active # NoTicket
  <2>1. queue' = Append(queue, k) /\ active' = active
    BY <1>4 DEF Put
  <2>2. /\ DOMAIN queue' = 1..(Len(queue) + 1) /\ queue'[Len(queue) + 1] = k
        /\ \A n \in DOMAIN queue : queue'[n] = queue[n]
    BY <1>0, <2>1, EndsFacts
  <2>3. IsInjective(queue')
    BY <1>1, <2>2 DEF Lined, IsInjective
  <2>4. \A n \in DOMAIN queue' : at'[queue'[n]] = "QUEUED" /\ queue'[n] # active'
    BY <1>1, <1>2, <2>1, <2>2 DEF Lined
  <2> QED  BY <1>1, <1>2, <2>1, <2>3, <2>4 DEF Lined
<1> QED  BY <1>3, <1>4

\* The slot goes to the head of the queue, or to nobody.
LEMMA HandOverLined ==
  ASSUME Shape, Lined, NEW k \in Tickets, active = k, HandOver,
         NEW p \in Points, at' = [at EXCEPT ![k] = p]
  PROVE  Lined'
<1>0. queue \in Seq(Tickets) /\ at \in [Tickets -> Points]
  BY DEF Shape
<1>1. /\ DOMAIN queue = 1..Len(queue) /\ Len(queue) \in Nat
      /\ \A n \in DOMAIN queue : queue[n] \in Tickets /\ queue[n] # k
  BY <1>0, EndsFacts DEF Lined
<1>2. \A m \in Tickets : m # k => at'[m] = at[m]
  BY <1>0
<1>3. CASE queue = <<>>
  <2>1. active' = NoTicket /\ queue' = queue
    BY <1>3 DEF HandOver
  <2>2. NoTicket \notin Tickets
    BY DEF NoTicket, Tickets
  <2> QED  BY <1>1, <1>2, <2>1, <2>2 DEF Lined
<1>4. CASE queue # <<>>
  <2>1. active' = Head(queue) /\ queue' = Tail(queue)
    BY <1>4 DEF HandOver
  <2>2. /\ active' = queue[1] /\ 1 \in DOMAIN queue /\ DOMAIN queue' \subseteq Nat \ {0}
        /\ \A n \in DOMAIN queue' : n + 1 \in DOMAIN queue /\ queue'[n] = queue[n + 1]
    BY <1>0, <1>4, <2>1, EndsFacts
  <2>3. IsInjective(queue')
    BY <2>2 DEF Lined, IsInjective
  <2>4. \A n \in DOMAIN queue' : at'[queue'[n]] = "QUEUED" /\ queue'[n] # active'
    BY <1>1, <1>2, <2>2 DEF Lined, IsInjective
  <2>5. active' \in Tickets /\ at'[active'] \in Slotted
    BY <1>1, <1>2, <2>2 DEF Lined, Slotted, Running, Ending, Stuck
  <2> QED  BY <2>3, <2>4, <2>5 DEF Lined
<1> QED  BY <1>3, <1>4

\* A ticket without a place goes on without one, or the active one goes on.
LEMMA GoOnLined ==
  ASSUME Shape, Lined, NEW k \in Tickets, NEW p \in Points, UNCHANGED manager,
         at' = [at EXCEPT ![k] = p],
         \/ at[k] \notin Slotted
         \/ active = k /\ p \in Slotted
  PROVE  Lined'
<1>1. queue \in Seq(Tickets) /\ at \in [Tickets -> Points] /\ UNCHANGED <<active, queue>>
  BY DEF Shape, manager
<1>2. \A n \in DOMAIN queue : queue[n] \in Tickets /\ queue[n] # k
  BY <1>1, EndsFacts DEF Lined, Slotted, Running, Ending, Stuck
<1>3. \A m \in Tickets : at'[m] = IF m = k THEN p ELSE at[m]
  BY <1>1
<1> QED  BY <1>1, <1>2, <1>3 DEF Lined

\* A ticket taken out of the queue leaves the others where they are.
LEMMA WithdrawLined ==
  ASSUME Shape, Lined, NEW n \in DOMAIN queue, queue' = RemoveAt(queue, n),
         at' = [at EXCEPT ![queue[n]] = "CANCELLED"], UNCHANGED active
  PROVE  Lined'
<1>0. queue \in Seq(Tickets) /\ at \in [Tickets -> Points] /\ IsInjective(queue)
  BY DEF Shape, Lined
<1>1. /\ IsInjective(queue')
      /\ \A m \in DOMAIN queue' : \E l \in DOMAIN queue : l # n /\ queue'[m] = queue[l]
  BY <1>0, RemoveAtElements
<1>2. \A l \in DOMAIN queue : queue[l] \in Tickets
  BY <1>0, EndsFacts
<1>3. \A m \in Tickets : m # queue[n] => at'[m] = at[m]
  BY <1>0
<1>4. \A m \in DOMAIN queue' : at'[queue'[m]] = "QUEUED" /\ queue'[m] # active'
  <2> SUFFICES ASSUME NEW m \in DOMAIN queue' PROVE at'[queue'[m]] = "QUEUED" /\ queue'[m] # active'
    OBVIOUS
  <2>1. PICK l \in DOMAIN queue : l # n /\ queue'[m] = queue[l]
    BY <1>1
  <2>2. queue[l] # queue[n]
    BY <1>0, <2>1 DEF IsInjective
  <2> QED  BY <1>2, <1>3, <2>1, <2>2 DEF Lined
<1>5. active' \in Tickets => at'[active'] \in Slotted
  BY <1>3 DEF Lined
<1> QED  BY <1>1, <1>4, <1>5 DEF Lined

\* Every step keeps each ticket in its one place.
LEMMA LinedStep ==
  ASSUME IntakeInv, Lined, [Next]_vars
  PROVE  Lined'
<1>0. Shape /\ at \in [Tickets -> Points]
  BY DEF IntakeInv, Shape
<1> USE DEF Points, Before, Waiting, Slotted, Running, Ending, Stuck
<1>1. CASE UNCHANGED <<at, manager>>
  BY <1>1 DEF manager, Lined
<1>2. CASE Exit
  <2>1. queue' = <<>> /\ active' = NoTicket /\ DOMAIN queue' = {} /\ NoTicket \notin Tickets
    BY <1>2 DEF Exit, NoTicket, Tickets
  <2> QED  BY <2>1 DEF Lined, IsInjective
<1>3. CASE Boot \/ Stop \/ RecoverRead \/ RecoverLock \/ RecoverEnd
  BY <1>1, <1>3 DEF Boot, Stop, RecoverRead, RecoverLock, RecoverEnd, tickets
<1>4. ASSUME NEW i \in Ids, RecoverPlace(i) PROVE Lined'
  <2>1. ASSUME NEW k \in Tickets, NextTicket(k), Put(k), at' = [at EXCEPT ![k] = "QUEUED"]
        PROVE  Lined'
    BY <1>0, <2>1, PutLined DEF NextTicket, Fresh
  <2> QED  BY <1>1, <1>4, <2>1 DEF RecoverPlace, tickets
<1>5. ASSUME NEW i \in Ids, NEW raw \in Payloads, HandleStartJob(i, raw) PROVE Lined'
  <2>1. ASSUME NEW k \in Tickets, NextTicket(k), at' = [at EXCEPT ![k] = "loading"], UNCHANGED manager
        PROVE  Lined'
    BY <1>0, <2>1, GoOnLined DEF NextTicket, Fresh
  <2> QED  BY <1>1, <1>5, <2>1 DEF HandleStartJob, tickets
<1>6. ASSUME NEW k \in Tickets, Load(k) PROVE Lined'
  BY <1>0, <1>6, GoOnLined DEF Load
<1>7. ASSUME NEW k \in Tickets, Submit(k) PROVE Lined'
  BY <1>0, <1>7, PutLined DEF Submit
<1>8. ASSUME NEW k \in Tickets, BeginPrint(k) \/ SendLines(k) \/ SaveCompleted(k) PROVE Lined'
  BY <1>0, <1>8, GoOnLined DEF BeginPrint, SendLines, SaveCompleted
<1>12. ASSUME NEW k \in Tickets, Hold(k) \/ Pause(k) \/ Resume(k) \/ Undo(k) \/ LeaveSlot(k)
       PROVE  Lined'
  BY <1>0, <1>12, GoOnLined DEF Hold, Pause, Resume, Undo, LeaveSlot
<1>9. ASSUME NEW k \in Tickets, Fail(k) \/ Complete(k) \/ EndCancelled(k) \/ FailHeld(k) PROVE Lined'
  BY <1>0, <1>9, HandOverLined DEF Fail, Complete, EndCancelled, FailHeld
<1>10. ASSUME NEW i \in Ids, Cancel(i) PROVE Lined'
  <2>1. UNCHANGED active
    BY <1>10, CancelCases
  <2>2. CASE UNCHANGED <<queue, disk, at, withdrawn>>
    BY <1>1, <2>1, <2>2 DEF manager
  <2>3. ASSUME NEW p \in {"cancelled", "halting", "kept"}, active \in Tickets,
               at' = [at EXCEPT ![active] = p], UNCHANGED queue
        PROVE  Lined'
    BY <1>0, <2>1, <2>3, GoOnLined DEF manager
  <2>4. ASSUME NEW n \in DOMAIN queue, queue' = RemoveAt(queue, n),
               at' = [at EXCEPT ![queue[n]] = "CANCELLED"]
        PROVE  Lined'
    BY <1>0, <2>1, <2>4, WithdrawLined
  <2> QED  BY <1>10, <2>2, <2>3, <2>4, CancelCases
<1>11. CASE UNCHANGED vars
  BY <1>1, <1>11 DEF vars, tickets
<1> QED
  BY <1>2, <1>3, <1>4, <1>5, <1>6, <1>7, <1>8, <1>9, <1>10, <1>11, <1>12
  DEF Next, Recovery, Executor, Remote

-----------------------------------------------------------------------------
\* What the files promise is kept through deliveries, kills and restarts.
THEOREM IntakeTheorem == Spec => [](IntakeInv /\ Lined)
<1>1. Init => IntakeInv /\ Lined
  <2> SUFFICES ASSUME Init PROVE IntakeInv /\ Lined
    OBVIOUS
  <2>1. IntakeInv
    BY EmptySeq, IdsAssumption
       DEF Init, IntakeInv, Shape, SentAll, Kept, FoundKept, CompletedMeansAllSent, Points, Before,
           Running, Sent, Statuses
  <2>2. queue = <<>> /\ DOMAIN queue = {} /\ active = NoTicket /\ NoTicket \notin Tickets
    BY DEF Init, NoTicket, Tickets
  <2>3. Lined
    BY <2>2 DEF Lined, IsInjective
  <2> QED  BY <2>1, <2>3
<1>2. IntakeInv /\ Lined /\ [Next]_vars => (IntakeInv /\ Lined)'
  <2> SUFFICES ASSUME IntakeInv, Lined, [Next]_vars PROVE IntakeInv'
    BY LinedStep
  <2>1. CASE UNCHANGED vars
    BY <2>1 DEF vars, tickets, manager, IntakeInv, Shape, SentAll, Kept, FoundKept, Placed,
                CompletedMeansAllSent
  <2>2. CASE Next
    BY <2>2, ProcessStep, RecoveryStep, ComeStep, TicketStep, CancelStep DEF Next
  <2> QED  BY <2>1, <2>2
<1> QED  BY <1>1, <1>2, PTL DEF Spec

\* A job is on disk as COMPLETED only if no line of it was refused.
THEOREM CompletedTheorem == Spec => []CompletedMeansAllSent
<1>1. IntakeInv => CompletedMeansAllSent
  BY DEF IntakeInv
<1> QED  BY <1>1, IntakeTheorem, PTL

\* A kill at any moment finds the accepted jobs on disk.
THEOREM PlacedTheorem == Spec => []PlacedIsKept
<1>1. IntakeInv => PlacedIsKept
  BY DEF IntakeInv, Kept, Placed, PlacedIsKept
<1> QED  BY <1>1, IntakeTheorem, PTL

-----------------------------------------------------------------------------
(* How often.  What a delivery or an early recover has granted is a        *)
(* finished print, a ticket on its way, or a file left by a dead process.  *)

Busy      == Waiting \cup Slotted \cup {"completing"}
Active(i) == {k \in Tickets : id[k] = i /\ at[k] \in Busy}
Debt(i)   == IF disk[i] \in Resumable /\ \A k \in Tickets : id[k] # i THEN 1 ELSE 0

Counts == done \in [Ids -> Nat] /\ came \in [Ids -> Nat] /\ twice \in [Ids -> Nat]

\* A resumable file has a ticket that will write its end, or none at all.
Owned ==
    \A i \in Ids : disk[i] \in Resumable =>
        \/ \A m \in Tickets : ~Placed(m, i)
        \/ \E m \in Tickets : id[m] = i /\ at[m] \in Slotted \cup {"completing"}

Granted == \A i \in Ids : done[i] + Cardinality(Active(i)) + Debt(i) <= came[i] + twice[i]

DeliveryInv == Counts /\ Owned /\ Granted

-----------------------------------------------------------------------------
\* The tickets of a job are finitely many, before a step and after it.
LEMMA ActiveFinite ==
  ASSUME NEW i
  PROVE  /\ IsFiniteSet(Active(i)) /\ Cardinality(Active(i)) \in Nat
         /\ IsFiniteSet(Active(i)') /\ Cardinality(Active(i)') \in Nat
<1>1. IsFiniteSet(Tickets)
  BY BoundsAssumption, FS_Interval DEF Tickets
<1>2. Active(i) \subseteq Tickets /\ Active(i)' \subseteq Tickets
  BY DEF Active
<1> QED  BY <1>1, <1>2, FS_Subset, FS_CardinalityType

\* What a step of one ticket does to the number of a job's tickets.
LEMMA OneTicket ==
  ASSUME NEW k \in Tickets, NEW i,
         \A m \in Tickets \ {k} : id'[m] = id[m] /\ at'[m] = at[m]
  PROVE  Cardinality(Active(i)') =
            Cardinality(Active(i)) + (IF k \in Active(i)' THEN 1 ELSE 0)
                                   - (IF k \in Active(i) THEN 1 ELSE 0)
<1>1. Active(i) \ {k} = Active(i)' \ {k}
  BY DEF Active
<1>2. ASSUME NEW S, IsFiniteSet(S), Cardinality(S) \in Nat
      PROVE  Cardinality(S \ {k}) = Cardinality(S) - (IF k \in S THEN 1 ELSE 0)
  <2>1. Cardinality(S \ {k}) = IF k \in S THEN Cardinality(S) - 1 ELSE Cardinality(S)
    BY ONLY <1>2, FS_RemoveElement
  <2> QED  BY <1>2, <2>1
<1>3. Cardinality(Active(i) \ {k}) = Cardinality(Active(i)) - (IF k \in Active(i) THEN 1 ELSE 0)
  BY <1>2, ActiveFinite
<1>4. Cardinality(Active(i)' \ {k}) = Cardinality(Active(i)') - (IF k \in Active(i)' THEN 1 ELSE 0)
  BY <1>2, ActiveFinite
<1> QED  BY <1>1, <1>3, <1>4, ActiveFinite

\* Nothing of this changes.
LEMMA QuietStep ==
  ASSUME DeliveryInv, UNCHANGED <<id, at, disk, done, came, twice>>
  PROVE  DeliveryInv'
<1>1. \A i : Active(i)' = Active(i) /\ Debt(i)' = Debt(i)
  BY DEF Active, Debt
<1>2. Owned'
  BY DEF DeliveryInv, Owned, Placed
<1> QED  BY <1>1, <1>2 DEF DeliveryInv, Counts, Granted

\* Ticket k goes on, with its file and the prints of its job.
LEMMA GoOn ==
  ASSUME DeliveryInv, NEW k \in Tickets, NEW i \in Ids, id[k] = i,
         UNCHANGED <<id, came, twice>>, done' \in [Ids -> Nat],
         \A m \in Tickets \ {k} : at'[m] = at[m],
         \A j \in Ids \ {i} : disk'[j] = disk[j] /\ done'[j] = done[j],
         at'[k] \in Busy => at[k] \in Busy,
         done'[i] = done[i] + (IF at[k] \in Busy /\ at'[k] \notin Busy THEN 1 ELSE 0)
           \/ done'[i] = done[i],
         disk'[i] \in Resumable =>
           \/ at'[k] \in Slotted \cup {"completing"}
           \/ disk'[i] = disk[i] /\ at[k] \in Before /\ at'[k] \in Before
  PROVE  DeliveryInv'
<1>1. Counts'
  BY DEF DeliveryInv, Counts
<1>2. Owned'
  <2>1. ASSUME NEW j \in Ids \ {i}, NEW m \in Tickets, id[m] = j PROVE at'[m] = at[m]
    BY <2>1
  <2> QED  BY <2>1 DEF DeliveryInv, Owned, Placed, Before, Waiting, Slotted, Running, Ending, Stuck
<1>3. ASSUME NEW j \in Ids PROVE Debt(j)' <= Debt(j) /\ Debt(j) \in Nat /\ Debt(j)' \in Nat
  BY DEF Debt
<1>4. ASSUME NEW j \in Ids
      PROVE  Cardinality(Active(j)') <= Cardinality(Active(j))
                - (IF j = i /\ at[k] \in Busy /\ at'[k] \notin Busy THEN 1 ELSE 0)
  <2>1. Cardinality(Active(j)') = Cardinality(Active(j)) + (IF k \in Active(j)' THEN 1 ELSE 0)
                                    - (IF k \in Active(j) THEN 1 ELSE 0)
    BY OneTicket
  <2>2. /\ k \in Active(j)  <=> j = i /\ at[k] \in Busy
        /\ k \in Active(j)' <=> j = i /\ at'[k] \in Busy
    BY DEF Active
  <2> QED  BY <2>1, <2>2, ActiveFinite
<1>5. Granted'
  BY <1>3, <1>4, ActiveFinite DEF DeliveryInv, Counts, Granted
<1> QED  BY <1>1, <1>2, <1>5 DEF DeliveryInv

\* A new ticket k of job i, granted by a delivery, by recover beside another
\* ticket, or by the file that recover found.
LEMMA NewTicket ==
  ASSUME DeliveryInv, NEW k \in Tickets, NEW i \in Ids, id[k] \notin Ids,
         NEW p \in {"loading", "QUEUED"},
         id \in [Tickets -> Ids \cup {NoId}], at \in [Tickets -> Points],
         id' = [id EXCEPT ![k] = i], at' = [at EXCEPT ![k] = p],
         UNCHANGED <<disk, done>>, {came', twice'} \subseteq [Ids -> Nat],
         \A j \in Ids \ {i} : came'[j] = came[j] /\ twice'[j] = twice[j],
         came'[i] + twice'[i] = came[i] + twice[i] + 1 - Debt(i)
           \/ came'[i] + twice'[i] = came[i] + twice[i] + 1
  PROVE  DeliveryInv'
<1>1. Counts'
  BY DEF DeliveryInv, Counts
<1>2. Owned'
  BY DEF DeliveryInv, Owned, Placed, Before, Waiting, Slotted, Running, Ending, Stuck
<1>3. ASSUME NEW j \in Ids PROVE /\ Debt(j) \in Nat /\ Debt(j)' \in Nat
                                 /\ Debt(j)' = IF j = i THEN 0 ELSE Debt(j)
  BY DEF Debt
<1>4. ASSUME NEW j \in Ids
      PROVE  Cardinality(Active(j)') <= Cardinality(Active(j)) + (IF j = i THEN 1 ELSE 0)
  <2>1. Cardinality(Active(j)') = Cardinality(Active(j)) + (IF k \in Active(j)' THEN 1 ELSE 0)
                                    - (IF k \in Active(j) THEN 1 ELSE 0)
    BY OneTicket
  <2>2. k \notin Active(j) /\ (k \in Active(j)' => j = i)
    BY DEF Active
  <2> QED  BY <2>1, <2>2, ActiveFinite
<1>5. Granted'
  BY <1>3, <1>4, ActiveFinite DEF DeliveryInv, Counts, Granted
<1> QED  BY <1>1, <1>2, <1>5 DEF DeliveryInv

\* A ticket is dropped; the file of its job may be without a ticket then.
LEMMA DropTicket ==
  ASSUME DeliveryInv, NEW k \in Tickets, NEW i \in Ids, id[k] = i, at[k] = "loading",
         id \in [Tickets -> Ids \cup {NoId}], at \in [Tickets -> Points],
         id' = [id EXCEPT ![k] = NoId], at' = [at EXCEPT ![k] = "none"],
         UNCHANGED <<disk, done, came, twice>>
  PROVE  DeliveryInv'
<1>1. Counts'
  BY DEF DeliveryInv, Counts
<1>2. Owned'
  BY IdsAssumption DEF DeliveryInv, Owned, Placed, Before, Waiting, Slotted, Running, Ending, Stuck
<1>3. ASSUME NEW j \in Ids PROVE /\ Debt(j) \in Nat /\ Debt(j)' \in Nat
                                 /\ Debt(j)' <= Debt(j) + (IF j = i THEN 1 ELSE 0)
  BY DEF Debt
<1>4. ASSUME NEW j \in Ids
      PROVE  Cardinality(Active(j)') = Cardinality(Active(j)) - (IF j = i THEN 1 ELSE 0)
  <2>1. Cardinality(Active(j)') = Cardinality(Active(j)) + (IF k \in Active(j)' THEN 1 ELSE 0)
                                    - (IF k \in Active(j) THEN 1 ELSE 0)
    BY OneTicket
  <2>2. (k \in Active(j) <=> j = i) /\ k \notin Active(j)'
    BY IdsAssumption DEF Active, Busy, Waiting, Slotted, Running, Ending, Stuck
  <2> QED  BY <2>1, <2>2, ActiveFinite
<1>5. Granted'
  BY <1>3, <1>4, ActiveFinite DEF DeliveryInv, Counts, Granted
<1> QED  BY <1>1, <1>2, <1>5 DEF DeliveryInv

\* The process ends: what is left of a job is a file.
LEMMA ExitStep ==
  ASSUME IntakeInv, DeliveryInv, Exit
  PROVE  DeliveryInv'
<1>1. Counts' /\ Owned'
  BY DEF DeliveryInv, Counts, Owned, Placed, Before, Exit, bounds, history
<1>2. ASSUME NEW i \in Ids PROVE Active(i)' = {} /\ Cardinality(Active(i)') = 0
  BY FS_EmptySet DEF Active, Exit, Busy, Waiting, Slotted, Running, Ending, Stuck
<1>3. ASSUME NEW i \in Ids PROVE Debt(i)' <= Cardinality(Active(i)) + Debt(i)
  <2>1. CASE disk[i] \in Resumable /\ \E m \in Tickets : id[m] = i
    <3>1. PICK m \in Tickets : id[m] = i /\ at[m] \in Busy
      <4>1. PICK n \in Tickets : id[n] = i /\ at[n] # "none"
        BY <2>1 DEF IntakeInv, Shape
      <4> QED  BY <2>1, <4>1 DEF DeliveryInv, Owned, Placed, Before, Busy
    <3>2. Active(i) # {}
      BY <3>1 DEF Active
    <3>3. Cardinality(Active(i)) # 0 /\ Cardinality(Active(i)) \in Nat
      BY <3>2, ActiveFinite, FS_EmptySet
    <3>4. Debt(i)' \in {0, 1} /\ Debt(i) = 0
      BY <2>1 DEF Debt
    <3> QED  BY <3>3, <3>4
  <2>2. CASE ~(disk[i] \in Resumable /\ \E m \in Tickets : id[m] = i)
    BY <2>2, ActiveFinite DEF Debt, Exit
  <2> QED  BY <2>1, <2>2
<1>4. Granted'
  <2> SUFFICES ASSUME NEW i \in Ids
               PROVE  done[i] + 0 + Debt(i)' <= came[i] + twice[i]
    BY <1>2 DEF Granted, Exit, bounds, history
  <2>1. Debt(i) \in Nat /\ Debt(i)' \in Nat
    BY DEF Debt
  <2> QED  BY <1>3, <2>1, ActiveFinite DEF DeliveryInv, Counts, Granted
<1> QED  BY <1>1, <1>4 DEF DeliveryInv

\* recover places a file it has found, or gives it up.
LEMMA PlaceStep ==
  ASSUME IntakeInv, DeliveryInv, NEW i \in Ids, RecoverPlace(i)
  PROVE  DeliveryInv'
<1>1. UNCHANGED came /\ i \in found
  BY DEF RecoverPlace, bounds
<1>2. ASSUME NEW k \in Tickets, at[k] = "none", UNCHANGED <<disk, done>>,
             id' = [id EXCEPT ![k] = i], at' = [at EXCEPT ![k] = "QUEUED"],
             twice' = IF \E m \in Tickets : id[m] = i THEN [twice EXCEPT ![i] = @ + 1] ELSE twice
      PROVE  DeliveryInv'
  <2>1. /\ id \in [Tickets -> Ids \cup {NoId}] /\ at \in [Tickets -> Points]
        /\ id[k] \notin Ids /\ {came', twice'} \subseteq [Ids -> Nat]
        /\ \A j \in Ids \ {i} : came'[j] = came[j] /\ twice'[j] = twice[j]
    BY <1>1, <1>2 DEF IntakeInv, Shape, DeliveryInv, Counts
  <2>2. CASE \E m \in Tickets : id[m] = i
    <3>1. came'[i] + twice'[i] = came[i] + twice[i] + 1
      BY <1>1, <1>2, <2>2 DEF DeliveryInv, Counts
    <3> QED  BY <1>2, <2>1, <3>1, NewTicket
  <2>3. CASE \A m \in Tickets : id[m] # i
    <3>1. Debt(i) = 1
      BY <1>1, <2>3 DEF IntakeInv, FoundKept, Placed, Debt
    <3>2. came'[i] + twice'[i] = came[i] + twice[i] + 1 - Debt(i)
      BY <1>1, <1>2, <2>3, <3>1 DEF DeliveryInv, Counts
    <3> QED  BY <1>2, <2>1, <3>2, NewTicket
  <2> QED  BY <2>2, <2>3
<1>3. CASE Save(i, "FAILED") /\ UNCHANGED <<tickets, manager, history>>
  <2>1. /\ disk' = [disk EXCEPT ![i] = "FAILED"] /\ disk \in [Ids -> Statuses \cup {"none"}]
        /\ UNCHANGED <<id, at, done, came, twice>>
    BY <1>1, <1>3 DEF Save, tickets, history, IntakeInv, Shape
  <2>2. \A j \in Ids : Active(j)' = Active(j) /\ Debt(j)' <= Debt(j)
                         /\ Debt(j) \in Nat /\ Debt(j)' \in Nat
    BY <2>1 DEF Active, Debt, Resumable
  <2>3. Owned'
    BY <2>1 DEF DeliveryInv, Owned, Placed, Resumable
  <2>4. Counts' /\ Granted'
    BY <2>1, <2>2, ActiveFinite DEF DeliveryInv, Counts, Granted
  <2> QED  BY <2>3, <2>4 DEF DeliveryInv
<1> QED  BY <1>2, <1>3 DEF RecoverPlace, NextTicket, Fresh, history

\* A message is a delivery; a ticket of it may be dropped again.
LEMMA MessageStep ==
  ASSUME IntakeInv, DeliveryInv,
         \/ \E i \in Ids : \E raw \in Payloads : HandleStartJob(i, raw)
         \/ \E k \in Tickets : Load(k)
  PROVE  DeliveryInv'
<1>1. ASSUME NEW i \in Ids, NEW raw \in Payloads, HandleStartJob(i, raw) PROVE DeliveryInv'
  <2>1. UNCHANGED <<disk, done, twice>>
    BY <1>1 DEF HandleStartJob
  <2>2. CASE raw.parses /\ raw.mine
    <3>1. PICK k \in Tickets : /\ NextTicket(k) /\ id' = [id EXCEPT ![k] = i]
                               /\ at' = [at EXCEPT ![k] = "loading"]
      BY <1>1, <2>2 DEF HandleStartJob
    <3>2. came' = [came EXCEPT ![i] = @ + 1]
      BY <1>1, <2>2 DEF HandleStartJob
    <3>3. /\ id \in [Tickets -> Ids \cup {NoId}] /\ at \in [Tickets -> Points]
          /\ id[k] \notin Ids /\ {came', twice'} \subseteq [Ids -> Nat]
          /\ \A j \in Ids \ {i} : came'[j] = came[j] /\ twice'[j] = twice[j]
          /\ came'[i] + twice'[i] = came[i] + twice[i] + 1
      <4>1. at[k] = "none" /\ id[k] \notin Ids
        BY <3>1 DEF NextTicket, Fresh, IntakeInv, Shape
      <4>2. came \in [Ids -> Nat] /\ twice \in [Ids -> Nat]
        BY DEF DeliveryInv, Counts
      <4> QED  BY <2>1, <3>2, <4>1, <4>2 DEF IntakeInv, Shape
    <3> QED  BY <2>1, <3>1, <3>3, NewTicket
  <2>3. CASE ~(raw.parses /\ raw.mine)
    BY <1>1, <2>1, <2>3, QuietStep DEF HandleStartJob, tickets
  <2> QED  BY <2>2, <2>3
<1>2. ASSUME NEW k \in Tickets, Load(k) PROVE DeliveryInv'
  <2>1. /\ at[k] = "loading" /\ UNCHANGED <<disk, done, came, twice>>
        /\ id \in [Tickets -> Ids \cup {NoId}] /\ at \in [Tickets -> Points]
        /\ id[k] \in Ids
    BY <1>2 DEF Load, bounds, history, IntakeInv, Shape
  <2>2. CASE at' = [at EXCEPT ![k] = "loaded"] /\ UNCHANGED id
    BY <2>1, <2>2, GoOn DEF DeliveryInv, Counts, Busy, Before, Waiting
  <2>3. CASE at' = [at EXCEPT ![k] = "none"] /\ id' = [id EXCEPT ![k] = NoId]
    BY <2>1, <2>3, DropTicket
  <2> QED  BY <1>2, <2>2, <2>3 DEF Load
<1> QED  BY <1>1, <1>2

\* A ticket's own way from submit to its end.
LEMMA WayStep ==
  ASSUME IntakeInv, DeliveryInv, NEW k \in Tickets, Submit(k) \/ Executor(k) \/ Remote(k)
  PROVE  DeliveryInv'
<1> USE DEF Save, Busy, Before, Waiting, Slotted, Running, Ending, Stuck, Resumable
<1>1. /\ id[k] \in Ids /\ disk \in [Ids -> Statuses \cup {"none"}] /\ at \in [Tickets -> Points]
      /\ done \in [Ids -> Nat]
  BY DEF Submit, Executor, BeginPrint, SendLines, Fail, Failing, Complete, SaveCompleted, Hold,
         EndCancelled, Undo, LeaveSlot, Remote, Pause, Resume, FailHeld,
         IntakeInv, Shape, DeliveryInv, Counts
<1>2. CASE Submit(k)
  BY <1>1, <1>2, GoOn DEF Submit, bounds, history
<1>3. CASE BeginPrint(k)
  BY <1>1, <1>3, GoOn DEF BeginPrint, bounds, history
<1>4. CASE SendLines(k)
  BY <1>1, <1>4, GoOn DEF SendLines, bounds, history
<1>5. CASE Fail(k)
  BY <1>1, <1>5, GoOn DEF Fail, Failing, bounds, history
<1>6. CASE Complete(k)
  BY <1>1, <1>6, GoOn DEF Complete, bounds, history
<1>7. CASE SaveCompleted(k)
  BY <1>1, <1>7, GoOn DEF SaveCompleted, bounds
<1>8. CASE Hold(k) \/ Pause(k) \/ Resume(k)
  BY <1>1, <1>8, GoOn DEF Hold, Pause, Resume, bounds, history
<1>9. CASE EndCancelled(k) \/ FailHeld(k)
  BY <1>1, <1>9, GoOn DEF EndCancelled, FailHeld, bounds, history
<1>10. CASE Undo(k)
  BY <1>1, <1>10, GoOn DEF Undo, bounds, history
<1>11. CASE LeaveSlot(k)
  BY <1>1, <1>11, GoOn DEF LeaveSlot, bounds, history
<1> QED  BY <1>2, <1>3, <1>4, <1>5, <1>6, <1>7, <1>8, <1>9, <1>10, <1>11 DEF Executor, Remote

\* A waiting ticket is taken out, or the active one called off.
LEMMA WithdrawStep ==
  ASSUME IntakeInv, Lined, DeliveryInv, NEW i \in Ids, Cancel(i)
  PROVE  DeliveryInv'
<1>1. UNCHANGED <<id, done, came, twice>>
  BY CancelCases
<1>2. CASE UNCHANGED <<disk, at>>
  BY <1>1, <1>2, QuietStep
<1>3. ASSUME NEW k \in Tickets, NEW p \in {"cancelled", "halting", "kept", "CANCELLED"},
             id[k] = i, at[k] \in Slotted, at' = [at EXCEPT ![k] = p],
             disk' = [disk EXCEPT ![i] = "CANCELLED"]
      PROVE  DeliveryInv'
  <2>1. at \in [Tickets -> Points] /\ disk \in [Ids -> Statuses \cup {"none"}] /\ done \in [Ids -> Nat]
    BY DEF IntakeInv, Shape, DeliveryInv, Counts
  <2>2. /\ disk'[i] \notin Resumable /\ at[k] \in Busy
        /\ \A j \in Ids \ {i} : disk'[j] = disk[j] /\ done'[j] = done[j]
        /\ \A m \in Tickets \ {k} : at'[m] = at[m]
    BY <1>1, <1>3, <2>1 DEF Resumable, Busy
  <2> QED  BY <1>1, <1>3, <2>1, <2>2, GoOn
<1>4. "QUEUED" \in Slotted
  BY DEF Slotted, Running
<1> QED  BY <1>2, <1>3, <1>4, CancelCases

-----------------------------------------------------------------------------
\* Every finished print, ticket on its way and file left behind was granted.
THEOREM DeliveryTheorem == Spec => []DeliveryInv
<1>1. Init => DeliveryInv
  <2> SUFFICES ASSUME Init PROVE DeliveryInv
    OBVIOUS
  <2>1. \A i \in Ids : Active(i) = {} /\ Cardinality(Active(i)) = 0
    BY FS_EmptySet DEF Init, Active, Busy, Waiting, Slotted, Running, Ending, Stuck
  <2>2. \A i \in Ids : Debt(i) = 0
    BY DEF Init, Debt, Resumable
  <2> QED  BY <2>1, <2>2 DEF Init, DeliveryInv, Counts, Owned, Granted, Resumable
<1>2. IntakeInv /\ Lined /\ DeliveryInv /\ [Next]_vars => DeliveryInv'
  <2> SUFFICES ASSUME IntakeInv, Lined, DeliveryInv, [Next]_vars PROVE DeliveryInv'
    OBVIOUS
  <2>1. CASE UNCHANGED vars \/ Boot \/ Stop \/ RecoverRead \/ RecoverLock \/ RecoverEnd
    BY <2>1, QuietStep DEF vars, Boot, Stop, RecoverRead, RecoverLock, RecoverEnd, tickets,
                           bounds, history
  <2>2. CASE Exit
    BY <2>2, ExitStep
  <2>3. CASE \E i \in Ids : RecoverPlace(i) \/ Cancel(i)
    BY <2>3, PlaceStep, WithdrawStep
  <2>4. CASE \/ \E i \in Ids : \E raw \in Payloads : HandleStartJob(i, raw)
             \/ \E k \in Tickets : Load(k)
    BY <2>4, MessageStep
  <2>5. CASE \E k \in Tickets : Submit(k) \/ Executor(k) \/ Remote(k)
    BY <2>5, WayStep
  <2> QED  BY <2>1, <2>2, <2>3, <2>4, <2>5 DEF Next, Recovery
<1> QED  BY <1>1, <1>2, IntakeTheorem, PTL DEF Spec

\* A job is completed at most once per delivery of its message, and once more
\* per time that recover placed it beside a ticket of its own.
THEOREM PrintedTheorem == Spec => []PrintedPerDelivery
<1>1. DeliveryInv => PrintedPerDelivery
  <2> SUFFICES ASSUME DeliveryInv, NEW i \in Ids PROVE done[i] <= came[i] + twice[i]
    BY DEF PrintedPerDelivery
  <2>1. Debt(i) \in Nat
    BY DEF Debt
  <2> QED  BY <2>1, ActiveFinite DEF DeliveryInv, Counts, Granted
<1> QED  BY <1>1, DeliveryTheorem, PTL

-----------------------------------------------------------------------------
\* Nothing is left from which a withdrawn job could start.
AwayInv ==
    /\ withdrawn \subseteq Ids
    /\ \A i \in withdrawn : /\ \A k \in Tickets : id[k] = i => at[k] \notin Waiting \cup Slotted
                            /\ i \notin found /\ disk[i] \notin Resumable

\* It stays that way in every process to come.
THEOREM AwayInvTheorem == Spec => []AwayInv
<1>1. Init => AwayInv
  BY DEF Init, AwayInv
<1>2. IntakeInv /\ Lined /\ AwayInv /\ [Next]_vars => AwayInv'
  <2> SUFFICES ASSUME IntakeInv, Lined, AwayInv, [Next]_vars PROVE AwayInv'
    OBVIOUS
  <2> USE DEF AwayInv, IntakeInv, Shape, Waiting, Slotted, Running, Ending, Stuck, Resumable
  <2>1. CASE UNCHANGED vars \/ Boot \/ Stop \/ RecoverRead \/ RecoverLock \/ RecoverEnd
    BY <2>1 DEF vars, Boot, Stop, RecoverRead, RecoverLock, RecoverEnd, tickets, history
  <2>2. CASE Exit
    BY <2>2 DEF Exit, history
  <2>3. ASSUME NEW i \in Ids, RecoverPlace(i) PROVE AwayInv'
    BY <2>3 DEF RecoverPlace, NextTicket, Fresh, Save, tickets, history
  <2>4. ASSUME NEW i \in Ids, NEW raw \in Payloads, HandleStartJob(i, raw) PROVE AwayInv'
    <3>1. UNCHANGED <<found, disk>>
      BY <2>4 DEF HandleStartJob
    <3>2. CASE raw.parses /\ raw.mine
      <4>1. PICK k \in Tickets : /\ id' = [id EXCEPT ![k] = i] /\ at' = [at EXCEPT ![k] = "loading"]
                                 /\ withdrawn' = withdrawn \ {i}
        BY <2>4, <3>2 DEF HandleStartJob
      <4> QED  BY <3>1, <4>1
    <3>3. CASE ~(raw.parses /\ raw.mine)
      BY <2>4, <3>1, <3>3 DEF HandleStartJob, tickets
    <3> QED  BY <3>2, <3>3
  <2>5. ASSUME NEW k \in Tickets, Load(k) PROVE AwayInv'
    BY <2>5 DEF Load, history
  <2>6. ASSUME NEW k \in Tickets, Submit(k) \/ Executor(k) \/ Remote(k) PROVE AwayInv'
    <3> USE DEF Save, tickets, history
    <3>1. CASE Submit(k)
      BY <2>6, <3>1 DEF Submit
    <3>2. CASE BeginPrint(k) \/ Hold(k) \/ Pause(k) \/ Resume(k)
      BY <2>6, <3>2 DEF BeginPrint, Hold, Pause, Resume
    <3>3. CASE Fail(k) \/ FailHeld(k) \/ EndCancelled(k)
      BY <2>6, <3>3 DEF Fail, Failing, FailHeld, EndCancelled
    <3>4. CASE SaveCompleted(k) \/ Complete(k)
      BY <2>6, <3>4 DEF SaveCompleted, Complete
    <3>5. CASE SendLines(k) \/ LeaveSlot(k)
      BY <2>6, <3>5 DEF SendLines, LeaveSlot
    <3>6. CASE Undo(k)
      BY <2>6, <3>6 DEF Undo
    <3> QED  BY <2>6, <3>1, <3>2, <3>3, <3>4, <3>5, <3>6 DEF Executor, Remote
  <2>7. ASSUME NEW i \in Ids, Cancel(i) PROVE AwayInv'
    <3>1. UNCHANGED <<id, found>>
      BY <2>7, CancelCases
    <3>2. CASE UNCHANGED <<disk, at, withdrawn>>
      BY <3>1, <3>2
    <3>3. ASSUME NEW p \in {"cancelled", "halting", "kept"}, active \in Tickets, id[active] = i,
                 at[active] \in Slotted, at' = [at EXCEPT ![active] = p],
                 disk' = [disk EXCEPT ![i] = "CANCELLED"], UNCHANGED withdrawn
          PROVE  AwayInv'
      <4>1. i \notin withdrawn
        BY <3>3
      <4> QED  BY <3>1, <3>3, <4>1
    <3>4. ASSUME NEW n \in DOMAIN queue, queue[n] \in Tickets, id[queue[n]] = i,
                 at' = [at EXCEPT ![queue[n]] = "CANCELLED"],
                 disk' = [disk EXCEPT ![i] = "CANCELLED"],
                 withdrawn' = IF Live(i) = {queue[n]} /\ i \notin found
                              THEN withdrawn \cup {i} ELSE withdrawn
          PROVE  AwayInv'
      <4>1. ASSUME NEW j \in withdrawn', NEW k \in Tickets, id[k] = j
            PROVE  at'[k] \notin Waiting \cup Slotted
        <5>1. CASE j \in withdrawn
          BY <3>4, <4>1, <5>1
        <5>2. CASE j \notin withdrawn
          <6>1. j = i /\ Live(i) = {queue[n]}
            BY <3>4, <4>1, <5>2
          <6>2. k = queue[n] \/ at[k] \notin Waiting \cup Slotted
            BY <4>1, <6>1 DEF Live
          <6> QED  BY <3>4, <6>2
        <5> QED  BY <5>1, <5>2
      <4> QED  BY <3>1, <3>4, <4>1
    <3> QED  BY <2>7, <3>2, <3>3, <3>4, CancelCases
  <2> QED  BY <2>1, <2>2, <2>3, <2>4, <2>5, <2>6, <2>7 DEF Next, Recovery
<1> QED  BY <1>1, <1>2, IntakeTheorem, PTL DEF Spec

\* A job taken out of the queue stays out of every process to come.
THEOREM AwayTheorem == Spec => []CancelledStaysAway
<1>1. AwayInv => CancelledStaysAway
  BY DEF AwayInv, CancelledStaysAway, Live, Slotted
<1> QED  BY <1>1, AwayInvTheorem, PTL

-----------------------------------------------------------------------------
(* The types.                                                              *)

\* The variables no other invariant speaks of.
Rest ==
    /\ phase \in {"off", "started", "read", "placing", "up", "stopping"}
    /\ url \in [Ids -> GcodeFiles]
    /\ starts \in 0..MaxStarts /\ cancels \in 0..MaxCancels

\* The rest of the variables.
LEMMA RestStep ==
  ASSUME Rest, [Next]_vars
  PROVE  Rest'
<1> USE BoundsAssumption DEF bounds, Rest
<1>1. CASE UNCHANGED <<phase, url, starts, cancels>>
  BY <1>1
<1>2. CASE Boot
  BY <1>2 DEF Boot
<1>3. CASE Stop \/ Exit \/ RecoverRead \/ RecoverLock \/ RecoverEnd
  BY <1>3 DEF Stop, Exit, RecoverRead, RecoverLock, RecoverEnd
<1>4. ASSUME NEW i \in Ids, Cancel(i) PROVE Rest'
  <2>1. cancels' \in 0..MaxCancels
    BY <1>4 DEF Cancel
  <2> QED  BY <1>4, <2>1 DEF Cancel
<1>5. ASSUME NEW i \in Ids,
             RecoverPlace(i) \/ \E raw \in Payloads : HandleStartJob(i, raw)
      PROVE  UNCHANGED <<phase, url, starts, cancels>>
  BY <1>5 DEF RecoverPlace, HandleStartJob
<1>6. ASSUME NEW k \in Tickets, Load(k) \/ Submit(k) \/ Executor(k) \/ Remote(k)
      PROVE  UNCHANGED <<phase, url, starts, cancels>>
  BY <1>6 DEF Load, Submit, Executor, BeginPrint, SendLines, Fail, Complete, SaveCompleted,
              Hold, EndCancelled, Undo, LeaveSlot, Remote, Pause, Resume, FailHeld
<1>7. CASE UNCHANGED vars
  BY <1>1, <1>7 DEF vars
<1> QED  BY <1>1, <1>2, <1>3, <1>4, <1>5, <1>6, <1>7 DEF Next, Recovery

\* The types of all the variables, and that a ticket is active or waits, and
\* only once: through deliveries, cancels, recover and restarts no job object
\* is ever started beside itself.
THEOREM TypeTheorem == Spec => []TypeOK
<1>1. Init => Rest
  BY BoundsAssumption DEF Init, Rest
<1>2. Rest /\ [Next]_vars => Rest'
  BY RestStep
<1>3. IntakeInv /\ DeliveryInv /\ AwayInv /\ Lined /\ Rest => TypeOK
  <2> SUFFICES ASSUME IntakeInv, DeliveryInv, AwayInv, Lined, Rest PROVE TypeOK
    OBVIOUS
  <2>1. active \notin Range(queue)
    BY DEF Lined, Range
  <2>2. at \in [Tickets -> Waiting \cup Running \cup Ending \cup Stuck \cup
                            {"none", "completing", "COMPLETED", "FAILED", "CANCELLED"}]
    <3>1. Points = Waiting \cup Running \cup Ending \cup Stuck \cup
                     {"none", "completing", "COMPLETED", "FAILED", "CANCELLED"}
      BY DEF Points, Before, Slotted
    <3> QED  BY <3>1 DEF IntakeInv, Shape
  <2> QED  BY <2>1, <2>2 DEF IntakeInv, Shape, DeliveryInv, Counts, AwayInv, Lined, Rest, TypeOK
<1> QED  BY <1>1, <1>2, <1>3, IntakeTheorem, DeliveryTheorem, AwayInvTheorem, PTL DEF Spec

=============================================================================
