-------------------------- MODULE JobControlProofs --------------------------
(***************************************************************************)
(* Proofs about JobControl, for any finite set of jobs, any line counts,   *)
(* any number of restarts and a store that may fail or not.                *)
(***************************************************************************)
EXTENDS JobControl, FiniteSetTheorems, SequenceTheorems, TLAPS

-----------------------------------------------------------------------------
(* Type correctness. *)

\* Removing one element of a sequence leaves a sequence over the same set.
LEMMA WithoutType ==
  ASSUME NEW S, NEW s \in Seq(S), NEW i \in 1..Len(s)
  PROVE  Without(s, i) \in Seq(S)
  BY DEF Without

\* Changing one value of a function keeps its type.
LEMMA ExceptType ==
  ASSUME NEW S, NEW T, NEW f \in [S -> T], NEW x \in S, NEW y \in T
  PROVE  [f EXCEPT ![x] = y] \in [S -> T]
  OBVIOUS

\* The initial state is well typed.
LEMMA InitTypeOK == Init => TypeOK
  BY CrashAssumption DEF Init, TypeOK, Empty, Statuses, CtlPoints, PcPoints, LivePoints

\* Every control call keeps the state well typed.
LEMMA ControlTypeOK == TypeOK /\ Control => TypeOK'
<1> SUFFICES ASSUME TypeOK, Control PROVE TypeOK'
  OBVIOUS
<1> USE DEF job, disk, sched, lock, evs, hist
<1>1. ASSUME NEW j \in Jobs, Create(j) PROVE TypeOK'
  <2>1. IsFiniteSet({k \in Jobs : created[k] # 0})
    BY JobsAssumption, FS_Subset
  <2>2. Cardinality({k \in Jobs : created[k] # 0}) \in Nat
    BY <2>1, FS_CardinalityType
  <2> DEFINE rank == 1 + Cardinality({k \in Jobs : created[k] # 0})
  <2>3. created' \in [Jobs -> Nat]
    <3>1. rank \in Nat
      BY <2>2
    <3>2. created' = [created EXCEPT ![j] = rank]
      BY <1>1 DEF Create
    <3> HIDE DEF rank
    <3> QED  BY <3>1, <3>2, ExceptType DEF TypeOK
  <2>4. status' \in [Jobs -> Statuses]
    BY <1>1 DEF TypeOK, Create, Mark, Statuses
  <2> QED  BY <1>1, <2>3, <2>4 DEF TypeOK, Create
<1>2. ASSUME NEW j \in Jobs, SubmitSave(j) PROVE TypeOK'
  BY <1>2 DEF TypeOK, SubmitSave, Mark, Written, Enter, At, Statuses, CtlPoints
<1>3. ASSUME NEW j \in Jobs, Pause(j) PROVE TypeOK'
  <2>1. late' \in [Jobs -> Nat]
    <3>1. late' = late \/ late' = [late EXCEPT ![j] = 0]
      BY <1>3 DEF Pause
    <3>2. late \in [Jobs -> Nat] /\ 0 \in Nat
      BY DEF TypeOK
    <3> QED  BY <3>1, <3>2, ExceptType
  <2>2. pauseEv' \in [Jobs -> BOOLEAN]
    BY <1>3 DEF TypeOK, Pause
  <2>3. ctl' \in CtlPoints /\ target' \in Jobs
    BY <1>3 DEF Pause, Enter, CtlPoints
  <2> QED  BY <1>3, <2>1, <2>2, <2>3 DEF TypeOK, Pause
<1>4. ASSUME NEW j \in Jobs, Resume(j) PROVE TypeOK'
  BY <1>4 DEF TypeOK, Resume, Enter, At, CtlPoints
<1>5. ASSUME NEW j \in Jobs, CancelActive(j) PROVE TypeOK'
  BY <1>5 DEF TypeOK, CancelActive, Enter, At, CtlPoints
<1>6. ASSUME NEW j \in Jobs, Withdraw(j) PROVE TypeOK'
  <2>1. queue' \in Seq(Jobs)
    BY <1>6, WithoutType DEF TypeOK, Withdraw
  <2>2. status' \in [Jobs -> Statuses] /\ ctl' \in CtlPoints /\ target' \in Jobs
    BY <1>6 DEF TypeOK, Withdraw, Mark, Enter, Statuses, CtlPoints
  <2> QED  BY <1>6, <2>1, <2>2 DEF TypeOK, Withdraw
<1>7. ASSUME NEW j \in Jobs, Fail(j) PROVE TypeOK'
  BY <1>7 DEF TypeOK, Fail, At
<1>8. CASE SubmitPlace
  <2>1. target \in Jobs
    BY <1>8 DEF TypeOK, SubmitPlace, At
  <2>2. queue' \in Seq(Jobs)
    <3>1. queue \in Seq(Jobs)
      BY DEF TypeOK
    <3>2. queue' = queue \/ queue' = Append(queue, target)
      BY <1>8 DEF SubmitPlace
    <3> QED  BY <2>1, <3>1, <3>2, AppendProperties
  <2>3. active' \in Jobs \cup {NoJob} /\ pc' \in [Jobs -> PcPoints]
    BY <1>8, <2>1 DEF TypeOK, SubmitPlace, StartJob, Goto, PcPoints, LivePoints
  <2>4. /\ pauseEv' \in [Jobs -> BOOLEAN]
        /\ cancelEv' \in [Jobs -> BOOLEAN]
        /\ failEv' \in [Jobs -> BOOLEAN]
    BY <1>8 DEF TypeOK, SubmitPlace, StartJob, Clear
  <2> QED  BY <1>8, <2>2, <2>3, <2>4 DEF TypeOK, SubmitPlace, Return, CtlPoints
<1>9. CASE PauseMark
  BY <1>9 DEF TypeOK, PauseMark, Mark, Enter, At, Statuses, CtlPoints
<1>10. CASE PauseSave
  BY <1>10 DEF TypeOK, PauseSave, Persist, Written, Enter, At, CtlPoints
<1>11. CASE PauseReturn
  BY <1>11 DEF TypeOK, PauseReturn, Return, At, CtlPoints
<1>12. CASE ResumeMark
  BY <1>12 DEF TypeOK, ResumeMark, Mark, Enter, At, Statuses, CtlPoints
<1>13. CASE ResumeSave
  BY <1>13 DEF TypeOK, ResumeSave, Persist, Written, Return, At, CtlPoints
<1>14. CASE CancelCheck
  BY <1>14 DEF TypeOK, CancelCheck, Return, Enter, At, CtlPoints
<1>15. CASE CancelMark
  BY <1>15 DEF TypeOK, CancelMark, Mark, Enter, At, Statuses, CtlPoints
<1>16. CASE CancelSave
  BY <1>16 DEF TypeOK, CancelSave, Persist, Written, Return, At, CtlPoints
<1>17. CASE WithdrawSave
  BY <1>17 DEF TypeOK, WithdrawSave, Persist, Written, Return, At, CtlPoints
<1> QED
  BY <1>1, <1>2, <1>3, <1>4, <1>5, <1>6, <1>7, <1>8, <1>9, <1>10, <1>11, <1>12,
     <1>13, <1>14, <1>15, <1>16, <1>17 DEF Control

\* Every step of an executor thread keeps the state well typed.
LEMMA StreamTypeOK ==
  ASSUME NEW j \in Jobs, TypeOK, Stream(j)
  PROVE  TypeOK'
<1> USE DEF job, disk, sched, lock, evs, hist
<1>1. CASE Begin(j)
  BY <1>1 DEF TypeOK, Begin, Mark, Goto, Statuses, PcPoints, LivePoints
<1>2. CASE MarkStarted(j) \/ MarkHeld(j) \/ MarkUnheld(j) \/ MarkCompleted(j)
  BY <1>2 DEF TypeOK, MarkStarted, MarkHeld, MarkUnheld, MarkCompleted, Mark, Goto,
              Statuses, PcPoints, LivePoints
<1>3. CASE LineFailed(j) \/ MarkFailed(j) \/ MarkCancelled(j)
  BY <1>3 DEF TypeOK, LineFailed, MarkFailed, MarkCancelled, Mark, Goto,
              Statuses, PcPoints, LivePoints
<1>4. CASE Save(j)
  <2>1. AfterSave[pc[j]] \in PcPoints
    BY <1>4 DEF Save, AfterSave, PcPoints, LivePoints
  <2>2. diskStatus' \in [Jobs -> Statuses] /\ diskIdx' \in [Jobs -> Nat]
    BY <1>4 DEF TypeOK, Save, Persist, Written
  <2> QED  BY <1>4, <2>1, <2>2 DEF TypeOK, Save, Goto
<1>5. CASE LoopTop(j) \/ PauseCheck(j) \/ LeaveHold(j) \/ AfterLoop(j) \/ FailJob(j)
  BY <1>5 DEF TypeOK, LoopTop, PauseCheck, LeaveHold, AfterLoop, FailJob, Goto,
              PcPoints, LivePoints
<1>6. CASE SendLine(j)
  <2>0. idx \in [Jobs -> Nat] /\ late \in [Jobs -> Nat] /\ lastSent \in [Jobs -> Nat]
    BY DEF TypeOK
  <2>1. idx[j] + 1 \in Nat /\ late[j] + 1 \in Nat /\ 0 \in Nat
    BY <2>0
  <2>6. lastSent' = [lastSent EXCEPT ![j] = idx[j] + 1]
    BY <1>6 DEF SendLine
  <2>2. lastSent' \in [Jobs -> Nat]
    BY <2>0, <2>6, <2>1, ExceptType
  <2>3. late' = [late EXCEPT ![j] = late[j] + 1] \/ late' = [late EXCEPT ![j] = 0]
    BY <1>6 DEF SendLine
  <2>4. late' \in [Jobs -> Nat]
    BY <2>0, <2>1, <2>3, ExceptType
  <2>5. pc' \in [Jobs -> PcPoints]
    BY <1>6 DEF TypeOK, SendLine, Goto, PcPoints, LivePoints
  <2> QED  BY <1>6, <2>2, <2>4, <2>5 DEF TypeOK, SendLine
<1>7. CASE LineSucceeded(j)
  <2>1. idx[j] + 1 \in Nat
    BY DEF TypeOK
  <2>2. idx' = [idx EXCEPT ![j] = idx[j] + 1]
    BY <1>7 DEF LineSucceeded
  <2>3. idx' \in [Jobs -> Nat]
    BY <2>1, <2>2, ExceptType DEF TypeOK
  <2>4. pc' \in [Jobs -> PcPoints]
    BY <1>7 DEF TypeOK, LineSucceeded, Goto, PcPoints, LivePoints
  <2> QED  BY <1>7, <2>3, <2>4 DEF TypeOK, LineSucceeded
<1>8. CASE Finish(j)
  <2>1. active' \in Jobs \cup {NoJob} /\ queue' \in Seq(Jobs)
    <3>1. CASE queue = <<>>
      BY <1>8, <3>1 DEF TypeOK, Finish
    <3>2. CASE queue # <<>>
      <4>1. Head(queue) \in Jobs /\ Tail(queue) \in Seq(Jobs)
        BY <3>2 DEF TypeOK
      <4> QED  BY <1>8, <3>2, <4>1 DEF Finish
    <3> QED  BY <3>1, <3>2
  <2>2. pc' \in [Jobs -> PcPoints]
    BY <1>8 DEF TypeOK, Finish, Goto, PcPoints, LivePoints
  <2>3. /\ pauseEv' \in [Jobs -> BOOLEAN]
        /\ cancelEv' \in [Jobs -> BOOLEAN]
        /\ failEv' \in [Jobs -> BOOLEAN]
    BY <1>8 DEF TypeOK, Finish, Clear
  <2>4. late' \in [Jobs -> Nat]
    BY <1>8 DEF TypeOK, Finish
  <2> QED  BY <1>8, <2>1, <2>2, <2>3, <2>4 DEF TypeOK, Finish
<1> QED
  BY <1>1, <1>2, <1>3, <1>4, <1>5, <1>6, <1>7, <1>8 DEF Stream

\* What recover puts in the slot and the queue are jobs.
LEMMA TakeUpType ==
  ASSUME NEW S \in SUBSET Jobs, TakeUp(S)
  PROVE  /\ active' \in Jobs \cup {NoJob}
         /\ queue' \in Seq(Jobs)
         /\ pc' \in [Jobs -> PcPoints]
<1>1. IsFiniteSet(S) /\ Cardinality(S) \in Nat
  BY JobsAssumption, FS_Subset, FS_CardinalityType
<1>2. S # {} => Cardinality(S) > 0
  BY <1>1, FS_EmptySet
<1>3. CASE S = {}
  BY <1>3 DEF TakeUp, Empty, PcPoints
<1>4. CASE S # {}
  <2>1. PICK order \in OldestFirst(S) :
          /\ active' = order[1]
          /\ queue' = [i \in 1..Cardinality(S) - 1 |-> order[i + 1]]
          /\ pc' = [j \in Jobs |-> IF j = order[1] THEN "begin" ELSE "none"]
    BY <1>4 DEF TakeUp
  <2>2. order \in [1..Cardinality(S) -> S]
    BY DEF OldestFirst
  <2>3. order[1] \in Jobs
    BY <1>1, <1>2, <1>4, <2>2
  <2>4. \A i \in 1..Cardinality(S) - 1 : order[i + 1] \in Jobs
    BY <1>1, <2>2
  <2>5. queue' \in Seq(Jobs)
    BY <1>1, <1>2, <1>4, <2>1, <2>4
  <2> QED  BY <2>1, <2>3, <2>5 DEF PcPoints, LivePoints
<1> QED  BY <1>3, <1>4

\* A restart rebuilds a well-typed state from the files.
LEMMA RestartTypeOK == TypeOK /\ Restart => TypeOK'
<1> SUFFICES ASSUME TypeOK, Restart PROVE TypeOK'
  OBVIOUS
<1>1. PICK gone \in SUBSET {j \in Jobs : diskStatus[j] \in Resumable /\ NumLines[j] = 0} :
        /\ diskStatus' = [j \in Jobs |-> IF j \in gone THEN "FAILED" ELSE diskStatus[j]]
        /\ status' = [j \in Jobs |-> IF j \in Again(gone) THEN "QUEUED" ELSE diskStatus'[j]]
        /\ TakeUp(Again(gone))
  BY DEF Restart
<1>5. active' \in Jobs \cup {NoJob} /\ queue' \in Seq(Jobs) /\ pc' \in [Jobs -> PcPoints]
  BY <1>1, TakeUpType DEF Again
<1>6. diskStatus' \in [Jobs -> Statuses]
  BY <1>1 DEF TypeOK, Statuses
<1>7. status' \in [Jobs -> Statuses]
  BY <1>1, <1>6 DEF Statuses
<1>8. crashes' \in 0..MaxCrashes
  BY CrashAssumption DEF TypeOK, Restart
<1>9. late' \in [Jobs -> Nat] /\ idx' \in [Jobs -> Nat]
  BY DEF TypeOK, Restart, Empty
<1> QED
  BY <1>5, <1>6, <1>7, <1>8, <1>9 DEF TypeOK, Restart, Return, Empty, CtlPoints

\* No action sees or stores a value of the wrong type, at any instance.
THEOREM TypeCorrect == Spec => []TypeOK
<1>1. TypeOK /\ [Next]_vars => TypeOK'
  <2> SUFFICES ASSUME TypeOK, [Next]_vars PROVE TypeOK'
    OBVIOUS
  <2>1. CASE Next
    BY <2>1, ControlTypeOK, StreamTypeOK, RestartTypeOK DEF Next
  <2>2. CASE UNCHANGED vars
    BY <2>2 DEF TypeOK, vars, job, disk, sched, lock, evs, hist
  <2> QED  BY <2>1, <2>2
<1> QED  BY <1>1, InitTypeOK, PTL DEF Spec

-----------------------------------------------------------------------------
(* One job at a time on the printer.  SingleStreamer is not inductive: it   *)
(* says nothing of a thread about to talk.  A thread that has yet to call   *)
(* on_finished owns the active slot; on_finished is the only place where    *)
(* the slot is given away.                                                  *)

SlotOwned == \A j \in Jobs : pc[j] \in LivePoints => active = j

\* A thread that does not hand over leaves the slot with its owner.
LEMMA StepKeepsOwner ==
  ASSUME NEW j \in Jobs, TypeOK, SlotOwned, pc[j] \in LivePoints,
         active' = active, NEW p \in PcPoints, Goto(j, p)
  PROVE  SlotOwned'
  BY DEF SlotOwned, TypeOK, Goto

\* SlotOwned is kept by every step.
LEMMA SlotOwnedStep == TypeOK /\ SlotOwned /\ [Next]_vars => SlotOwned'
<1> SUFFICES ASSUME TypeOK, SlotOwned, [Next]_vars PROVE SlotOwned'
  OBVIOUS
<1> USE DEF job, disk, sched, lock, evs, hist
<1>1. CASE UNCHANGED <<pc, active>>
  BY <1>1 DEF SlotOwned
<1>2. CASE SubmitPlace
  <2>1. target \in Jobs
    BY <1>2 DEF TypeOK, SubmitPlace, At
  <2>2. CASE active = NoJob
    <3>1. \A j \in Jobs : pc[j] \notin LivePoints
      BY <2>2, JobsAssumption DEF SlotOwned
    <3>2. active' = target /\ pc' = [pc EXCEPT ![target] = "begin"]
      BY <1>2, <2>2 DEF SubmitPlace, StartJob, Goto
    <3> QED  BY <2>1, <3>1, <3>2 DEF SlotOwned, TypeOK
  <2>3. CASE active # NoJob
    BY <1>2, <2>3 DEF SubmitPlace, SlotOwned
  <2> QED  BY <2>2, <2>3
<1>3. ASSUME NEW j \in Jobs, Stream(j) PROVE SlotOwned'
  <2>1. CASE Save(j)
    <3>1. CASE pc[j] = "save_done"
      BY <2>1, <3>1 DEF Save, Goto, AfterSave, SlotOwned, TypeOK, LivePoints
    <3>2. CASE pc[j] # "save_done"
      <4>1. pc[j] \in LivePoints /\ AfterSave[pc[j]] \in PcPoints
        BY <2>1, <3>2 DEF Save, AfterSave, LivePoints, PcPoints
      <4> QED  BY <2>1, <4>1, StepKeepsOwner DEF Save
    <3> QED  BY <3>1, <3>2
  <2>2. CASE Finish(j)
    <3>1. pc[j] \in LivePoints /\ active = j
      BY <2>2 DEF Finish, LivePoints, SlotOwned
    <3>2. \A k \in Jobs : k # j => pc[k] \notin LivePoints
      BY <3>1 DEF SlotOwned
    <3>3. PICK next \in {"done", "save_done"} :
            \/ active' = NoJob /\ pc' = [pc EXCEPT ![j] = next]
            \/ /\ queue # <<>> /\ active' = Head(queue)
               /\ pc' = [pc EXCEPT ![j] = next, ![Head(queue)] = "begin"]
      BY <2>2 DEF Finish, Goto
    <3>4. queue # <<>> => Head(queue) \in Jobs
      BY DEF TypeOK
    <3>5. \A k \in Jobs : pc'[k] \in LivePoints => k = active'
      BY <3>2, <3>3, <3>4 DEF TypeOK, LivePoints
    <3> QED  BY <3>5 DEF SlotOwned
  <2>3. CASE \/ Begin(j) \/ MarkStarted(j) \/ LoopTop(j) \/ PauseCheck(j) \/ SendLine(j)
             \/ LineSucceeded(j) \/ LineFailed(j) \/ MarkHeld(j)
    <3>1. pc[j] \in LivePoints /\ active' = active
      BY <2>3 DEF Begin, MarkStarted, LoopTop, PauseCheck, SendLine, LineSucceeded,
                  LineFailed, MarkHeld, LivePoints
    <3>2. \E p \in PcPoints : Goto(j, p)
      BY <2>3 DEF Begin, MarkStarted, LoopTop, PauseCheck, SendLine, LineSucceeded,
                  LineFailed, MarkHeld, LivePoints, PcPoints
    <3> QED  BY <3>1, <3>2, StepKeepsOwner
  <2>4. CASE \/ LeaveHold(j) \/ MarkUnheld(j) \/ AfterLoop(j) \/ MarkCompleted(j)
             \/ FailJob(j) \/ MarkFailed(j) \/ MarkCancelled(j)
    <3>1. pc[j] \in LivePoints /\ active' = active
      BY <2>4 DEF LeaveHold, MarkUnheld, AfterLoop, MarkCompleted, FailJob, MarkFailed,
                  MarkCancelled, LivePoints
    <3>2. \E p \in PcPoints : Goto(j, p)
      BY <2>4 DEF LeaveHold, MarkUnheld, AfterLoop, MarkCompleted, FailJob, MarkFailed,
                  MarkCancelled, LivePoints, PcPoints
    <3> QED  BY <3>1, <3>2, StepKeepsOwner
  <2> QED  BY <1>3, <2>1, <2>2, <2>3, <2>4 DEF Stream
<1>4. CASE Restart
  <2>1. PICK S \in SUBSET Jobs : TakeUp(S)
    BY <1>4 DEF Restart, Again
  <2> QED  BY <2>1 DEF TakeUp, Empty, SlotOwned, LivePoints
<1>5. CASE Control /\ ~SubmitPlace
  <2>1. UNCHANGED <<pc, active>>
    BY <1>5 DEF Control, Create, SubmitSave, Pause, Resume, CancelActive, Withdraw, Fail,
       PauseMark, PauseSave, PauseReturn, ResumeMark, ResumeSave, CancelCheck,
       CancelMark, CancelSave, WithdrawSave
  <2> QED  BY <2>1, <1>1
<1> QED
  BY <1>1, <1>2, <1>3, <1>4, <1>5 DEF Next, vars

\* Two executor threads never talk to the printer at the same time: "Only ONE
\* active job per printer at a time" (job_manager.py:11), for any number of
\* jobs, with restarts and with a store that fails.
THEOREM OneStreamer == Spec => []SingleStreamer
<1>1. Init => SlotOwned
  BY DEF Init, Empty, SlotOwned, LivePoints
<1>2. SlotOwned => SingleStreamer
  BY DEF SlotOwned, SingleStreamer, TalkPoints, LivePoints
<1> QED  BY <1>1, <1>2, SlotOwnedStep, TypeCorrect, PTL DEF Spec

-----------------------------------------------------------------------------
(* The queue, the slot and the files.  The invariant adds to                *)
(* WaitingJobsSafe what a control call in progress may be about, and that   *)
(* only a job with a file is ever started.                                  *)

OnFile == \A j \in Jobs : /\ diskStatus[j] = "NONE" => pc[j] = "none" /\ active # j
                          /\ diskStatus[j] # "NONE" => status[j] # "NONE"

Apart  == \A n \in 1..Len(queue) : /\ queue[n] # active
                                   /\ pc[queue[n]] = "none"
                                   /\ diskStatus[queue[n]] \in Resumable
                                   /\ ctl # "idle" => queue[n] # target

NoTwice == \A m, n \in 1..Len(queue) : queue[m] = queue[n] => m = n

Placing == ctl = "submit" => /\ pc[target] = "none" /\ target # active
                             /\ diskStatus[target] \in Resumable

QueueInv == OnFile /\ Apart /\ NoTwice /\ Placing

\* The queue is a finite list of jobs.
LEMMA QueueElements ==
  ASSUME TypeOK
  PROVE  Len(queue) \in Nat /\ \A n \in 1..Len(queue) : queue[n] \in Jobs
<1>1. queue \in Seq(Jobs)
  BY DEF TypeOK
<1> QED  BY <1>1

\* What is left after removing the i-th element, and where it was.
LEMMA WithoutElements ==
  ASSUME NEW S, NEW s \in Seq(S), NEW i \in 1..Len(s)
  PROVE  /\ Len(Without(s, i)) = Len(s) - 1
         /\ \A n \in 1..Len(s) - 1 :
               /\ n < i => Without(s, i)[n] = s[n]
               /\ n >= i => Without(s, i)[n] = s[n + 1]
  BY DEF Without

\* A save of a job that does not wait leaves the queue safe.
LEMMA SaveKeepsQueue ==
  ASSUME TypeOK, QueueInv, NEW j \in Jobs, Persist(j),
         \A n \in 1..Len(queue) : queue[n] # j,
         ctl = "submit" => target # j,
         UNCHANGED <<status, active, queue>>,
         NEW p \in PcPoints, pc' = pc \/ (pc[j] # "none" /\ Goto(j, p)),
         \/ UNCHANGED lock
         \/ ctl' \in {"idle", "paused"} /\ (ctl' # "idle" => target' = target)
             /\ ctl # "idle"
  PROVE  QueueInv'
<1> USE DEF lock, disk
<1>1. \A k \in Jobs : k # j => diskStatus'[k] = diskStatus[k] /\ pc'[k] = pc[k]
  BY DEF Persist, Written, TypeOK, Goto
<1>2. diskStatus'[j] \in {diskStatus[j], status[j]}
  BY DEF Persist, Written, TypeOK
<1>3. diskStatus'[j] = "NONE" => pc[j] = "none" /\ active # j /\ diskStatus[j] = "NONE"
  BY <1>2 DEF QueueInv, OnFile
<1>4. OnFile'
  BY <1>1, <1>2, <1>3 DEF QueueInv, OnFile
<1>5. Apart'
  <2>1. ctl' # "idle" => ctl # "idle" /\ target' = target
    OBVIOUS
  <2> QED  BY <1>1, <2>1, QueueElements DEF QueueInv, Apart
<1>6. NoTwice'
  BY DEF QueueInv, NoTwice
<1>7. Placing'
  BY <1>1 DEF QueueInv, Placing, TypeOK
<1> QED  BY <1>4, <1>5, <1>6, <1>7 DEF QueueInv

\* A mark, or a call about the active job, leaves the queue safe.
LEMMA MarkKeepsQueue ==
  ASSUME TypeOK, QueueInv, UNCHANGED <<diskStatus, active, queue, pc>>,
         \A k \in Jobs : diskStatus[k] # "NONE" => status'[k] # "NONE",
         \/ UNCHANGED lock
         \/ ctl' \in CtlPoints \ {"submit"} /\ ctl = "idle" /\ target' = active
         \/ ctl' \in CtlPoints \ {"submit"} /\ ctl # "idle" /\ target' = target
         \/ ctl' = "idle"
  PROVE  QueueInv'
  BY DEF QueueInv, OnFile, Apart, NoTwice, Placing, lock, TypeOK

\* Every control call keeps the queue safe.
LEMMA ControlQueue == TypeOK /\ QueueInv /\ Control => QueueInv'
<1> SUFFICES ASSUME TypeOK, QueueInv, Control PROVE QueueInv'
  OBVIOUS
<1> USE DEF job, disk, sched, lock, evs, hist
<1>1. ASSUME NEW j \in Jobs, Create(j) PROVE QueueInv'
  BY <1>1, MarkKeepsQueue DEF Create, Mark, TypeOK, QueueInv, OnFile
<1>2. ASSUME NEW j \in Jobs, SubmitSave(j) PROVE QueueInv'
  <2>1. /\ pc[j] = "none" /\ active # j
        /\ \A n \in 1..Len(queue) : queue[n] # j
    BY <1>2 DEF SubmitSave, QueueInv, OnFile, Apart, Resumable
  <2>2. CASE Written(j) /\ Enter("submit", j) /\ UNCHANGED status
    <3>1. diskStatus'[j] = "QUEUED"
      BY <1>2, <2>2 DEF SubmitSave, Written, TypeOK
    <3>2. \A k \in Jobs : k # j => diskStatus'[k] = diskStatus[k]
      BY <2>2 DEF Written, TypeOK
    <3>3. OnFile'
      BY <1>2, <2>2, <3>1, <3>2 DEF SubmitSave, QueueInv, OnFile
    <3>4. Apart'
      <4>1. target' = j /\ UNCHANGED <<queue, active, pc>>
        BY <1>2, <2>2 DEF SubmitSave, Enter
      <4> QED  BY <2>1, <3>2, <4>1, QueueElements DEF QueueInv, Apart
    <3>5. NoTwice' /\ Placing'
      BY <1>2, <2>1, <2>2, <3>1 DEF SubmitSave, QueueInv, NoTwice, Placing, Enter, Resumable
    <3> QED  BY <3>3, <3>4, <3>5 DEF QueueInv
  <2>3. CASE Mark(j, "NONE") /\ UNCHANGED <<disk, lock>>
    BY <1>2, <2>3, MarkKeepsQueue DEF SubmitSave, Mark, TypeOK, QueueInv, OnFile
  <2> QED  BY <1>2, <2>2, <2>3 DEF SubmitSave
<1>3. ASSUME NEW j \in Jobs, Pause(j) \/ Resume(j) \/ CancelActive(j) \/ Fail(j)
      PROVE QueueInv'
  <2>1. \/ UNCHANGED lock
        \/ ctl' \in CtlPoints \ {"submit"} /\ ctl = "idle" /\ target' = active
    BY <1>3 DEF Pause, Resume, CancelActive, Fail, Enter, At, CtlPoints
  <2>2. UNCHANGED <<status, diskStatus, active, queue, pc>>
    BY <1>3 DEF Pause, Resume, CancelActive, Fail
  <2> QED  BY <2>1, <2>2, MarkKeepsQueue DEF QueueInv, OnFile
<1>4. ASSUME NEW j \in Jobs, Withdraw(j) PROVE QueueInv'
  <2>1. PICK i \in 1..Len(queue) : queue[i] = j /\ queue' = Without(queue, i)
    BY <1>4 DEF Withdraw
  <2> DEFINE from(n) == IF n < i THEN n ELSE n + 1
  <2>2. queue \in Seq(Jobs) /\ Len(queue) \in Nat
    BY QueueElements DEF TypeOK
  <2>3. /\ Len(queue') = Len(queue) - 1
        /\ \A n \in 1..Len(queue') : queue'[n] = queue[from(n)]
    <3>1. /\ Len(queue') = Len(queue) - 1
          /\ \A n \in 1..Len(queue) - 1 :
                /\ n < i => queue'[n] = queue[n]
                /\ n >= i => queue'[n] = queue[n + 1]
      BY <2>1, <2>2, WithoutElements
    <3> QED  BY <2>2, <3>1
  <2>4. \A n \in 1..Len(queue') : from(n) \in 1..Len(queue) /\ from(n) # i
    BY <2>1, <2>2, <2>3
  <2>9. \A m, n \in 1..Len(queue') : from(m) = from(n) => m = n
    BY <2>1, <2>2, <2>3
  <2> HIDE DEF from
  <2>10. NoTwice'
    BY <2>3, <2>4, <2>9 DEF QueueInv, NoTwice
  <2>5. \A n \in 1..Len(queue') : queue'[n] # j
    BY <2>1, <2>3, <2>4 DEF QueueInv, NoTwice
  <2>6. UNCHANGED <<pc, active, diskStatus>> /\ ctl' = "withdraw_save" /\ target' = j
    BY <1>4 DEF Withdraw, Enter
  <2>7. Apart'
    BY <2>3, <2>4, <2>5, <2>6 DEF QueueInv, Apart
  <2>8. OnFile'
    BY <1>4, <2>6 DEF Withdraw, Mark, TypeOK, QueueInv, OnFile
  <2> QED  BY <2>10, <2>6, <2>7, <2>8 DEF QueueInv, Placing
<1>5. CASE SubmitPlace
  <2>1. /\ target \in Jobs /\ pc[target] = "none" /\ target # active
        /\ diskStatus[target] \in Resumable
        /\ \A n \in 1..Len(queue) : queue[n] # target
    BY <1>5 DEF SubmitPlace, At, TypeOK, QueueInv, Placing, Apart
  <2>2. ctl' = "idle" /\ UNCHANGED <<diskStatus, status>>
    BY <1>5 DEF SubmitPlace, Return
  <2>3. CASE active = NoJob
    <3>1. active' = target /\ pc' = [pc EXCEPT ![target] = "begin"] /\ queue' = queue
      BY <1>5, <2>3 DEF SubmitPlace, StartJob, Goto
    <3>2. \A k \in Jobs : k # target => pc'[k] = pc[k]
      BY <3>1 DEF TypeOK
    <3>3. OnFile'
      BY <2>1, <2>2, <3>1, <3>2 DEF QueueInv, OnFile, Resumable
    <3>4. Apart'
      BY <2>1, <2>2, <3>1, <3>2, QueueElements DEF QueueInv, Apart
    <3> QED  BY <2>2, <3>1, <3>3, <3>4 DEF QueueInv, NoTwice, Placing
  <2>4. CASE active # NoJob
    <3>1. queue' = Append(queue, target) /\ active' = active /\ pc' = pc
      BY <1>5, <2>4 DEF SubmitPlace
    <3>2. queue \in Seq(Jobs)
      BY DEF TypeOK
    <3>3. /\ Len(queue') = Len(queue) + 1
          /\ \A n \in 1..Len(queue) : queue'[n] = queue[n]
          /\ queue'[Len(queue) + 1] = target
      BY <2>1, <3>1, <3>2, AppendProperties
    <3>4. \A n \in 1..Len(queue') : n \in 1..Len(queue) \/ n = Len(queue) + 1
      BY <3>2, <3>3
    <3>5. NoTwice'
      BY <2>1, <3>3, <3>4 DEF QueueInv, NoTwice
    <3>6. Apart'
      BY <2>1, <2>2, <3>1, <3>3, <3>4 DEF QueueInv, Apart
    <3> QED  BY <2>2, <3>1, <3>5, <3>6 DEF QueueInv, OnFile, Placing
  <2> QED  BY <2>3, <2>4
<1>6. CASE PauseMark \/ ResumeMark \/ CancelMark
  <2>1. target' = target /\ ctl' \in CtlPoints \ {"submit"} /\ ctl # "idle"
    BY <1>6 DEF PauseMark, ResumeMark, CancelMark, Enter, At, CtlPoints
  <2>2. \A k \in Jobs : diskStatus[k] # "NONE" => status'[k] # "NONE"
    BY <1>6 DEF PauseMark, ResumeMark, CancelMark, Mark, TypeOK, QueueInv, OnFile
  <2>3. UNCHANGED <<diskStatus, active, queue, pc>>
    BY <1>6 DEF PauseMark, ResumeMark, CancelMark
  <2> QED  BY <2>1, <2>2, <2>3, MarkKeepsQueue
<1>7. CASE PauseReturn \/ CancelCheck
  <2>1. \/ ctl' = "idle"
        \/ ctl' \in CtlPoints \ {"submit"} /\ ctl # "idle" /\ target' = target
    BY <1>7 DEF PauseReturn, CancelCheck, Return, Enter, At, CtlPoints
  <2>2. UNCHANGED <<status, diskStatus, active, queue, pc>>
    BY <1>7 DEF PauseReturn, CancelCheck
  <2> QED  BY <2>1, <2>2, MarkKeepsQueue DEF QueueInv, OnFile
<1>8. CASE PauseSave \/ ResumeSave \/ CancelSave \/ WithdrawSave
  <2>1. target \in Jobs /\ ctl # "submit" /\ ctl # "idle" /\ Persist(target)
    BY <1>8 DEF PauseSave, ResumeSave, CancelSave, WithdrawSave, At, TypeOK
  <2>2. ctl' = "idle" \/ (ctl' = "paused" /\ target' = target)
    BY <1>8 DEF PauseSave, ResumeSave, CancelSave, WithdrawSave, Return, Enter
  <2>3. UNCHANGED <<status, active, queue>> /\ pc' = pc
    BY <1>8 DEF PauseSave, ResumeSave, CancelSave, WithdrawSave
  <2>4. \A n \in 1..Len(queue) : queue[n] # target
    BY <2>1 DEF QueueInv, Apart
  <2> QED  BY <2>1, <2>2, <2>3, <2>4, SaveKeepsQueue DEF PcPoints
<1> QED
  BY <1>1, <1>2, <1>3, <1>4, <1>5, <1>6, <1>7, <1>8 DEF Control

\* Every step of an executor thread keeps the queue safe.
LEMMA StreamQueue ==
  ASSUME NEW j \in Jobs, TypeOK, SlotOwned, QueueInv, Stream(j)
  PROVE  QueueInv'
<1> USE DEF job, disk, sched, lock, evs, hist
<1>0. pc[j] # "none" => /\ \A n \in 1..Len(queue) : queue[n] # j
                        /\ ctl = "submit" => target # j
  BY DEF QueueInv, Apart, Placing
<1>1. CASE Save(j)
  <2>1. pc[j] # "none" /\ AfterSave[pc[j]] \in PcPoints
    BY <1>1 DEF Save, AfterSave, PcPoints, LivePoints
  <2>2. Persist(j) /\ Goto(j, AfterSave[pc[j]]) /\ UNCHANGED <<status, active, queue, lock>>
    BY <1>1 DEF Save
  <2> QED  BY <1>0, <2>1, <2>2, SaveKeepsQueue
<1>2. CASE Finish(j)
  <2>1. pc[j] # "none" /\ ctl = "idle" /\ UNCHANGED <<status, diskStatus, lock>>
    BY <1>2 DEF Finish, At
  <2>2. CASE queue = <<>>
    <3>1. active' = NoJob /\ queue' = queue /\ \A k \in Jobs : k # j => pc'[k] = pc[k]
      BY <1>2, <2>2 DEF Finish, Goto, TypeOK
    <3>2. Len(queue') = 0
      BY <2>2, <3>1
    <3>3. OnFile'
      BY <2>1, <3>1, JobsAssumption DEF QueueInv, OnFile
    <3> QED  BY <2>1, <3>2, <3>3 DEF QueueInv, Apart, NoTwice, Placing
  <2>3. CASE queue # <<>>
    <3>1. queue \in Seq(Jobs) /\ Len(queue) \in Nat
      BY QueueElements DEF TypeOK
    <3>2. /\ Head(queue) = queue[1] /\ 1 \in 1..Len(queue)
          /\ Len(Tail(queue)) = Len(queue) - 1
          /\ \A n \in 1..Len(queue) - 1 : Tail(queue)[n] = queue[n + 1]
      BY <2>3, <3>1
    <3>3. queue' = Tail(queue) /\ active' = queue[1]
      BY <1>2, <2>3, <3>2 DEF Finish
    <3>4. queue[1] \in Jobs /\ diskStatus[queue[1]] \in Resumable
      BY <3>1, <3>2 DEF QueueInv, Apart
    <3>5. \A k \in Jobs : k # j /\ k # queue[1] => pc'[k] = pc[k]
      BY <1>2, <2>3, <3>2, <3>4 DEF Finish, TypeOK
    <3>6. OnFile'
      BY <2>1, <3>3, <3>4, <3>5 DEF QueueInv, OnFile, Resumable
    <3>7. \A n \in 1..Len(queue') : n + 1 \in 1..Len(queue) /\ queue'[n] = queue[n + 1]
      BY <3>1, <3>2, <3>3
    <3>8. \A n \in 1..Len(queue') : queue'[n] # queue[1] /\ queue'[n] # j
      BY <1>0, <2>1, <3>1, <3>2, <3>7 DEF QueueInv, NoTwice
    <3>9. NoTwice'
      <4>1. \A m, n \in 1..Len(queue') : m + 1 = n + 1 => m = n
        BY <3>1, <3>3
      <4> QED  BY <3>7, <4>1 DEF QueueInv, NoTwice
    <3>10. Apart'
      BY <2>1, <3>1, <3>3, <3>5, <3>7, <3>8 DEF QueueInv, Apart
    <3> QED  BY <2>1, <3>6, <3>9, <3>10 DEF QueueInv, Placing
  <2> QED  BY <2>2, <2>3
<1>3. CASE Stream(j) /\ ~Save(j) /\ ~Finish(j)
  <2>1. /\ pc[j] # "none" /\ UNCHANGED <<diskStatus, active, queue, lock>>
        /\ \E p \in PcPoints : Goto(j, p)
        /\ \E s \in Statuses \ {"NONE"} : UNCHANGED status \/ Mark(j, s)
    <3>1. CASE Begin(j) \/ MarkStarted(j) \/ LoopTop(j) \/ PauseCheck(j) \/ SendLine(j)
      BY <3>1 DEF Begin, MarkStarted, LoopTop, PauseCheck, SendLine, PcPoints, LivePoints,
                  Statuses
    <3>2. CASE LineSucceeded(j) \/ LineFailed(j) \/ MarkHeld(j) \/ LeaveHold(j) \/ MarkUnheld(j)
      BY <3>2 DEF LineSucceeded, LineFailed, MarkHeld, LeaveHold, MarkUnheld, PcPoints,
                  LivePoints, Statuses
    <3>3. CASE \/ AfterLoop(j) \/ MarkCompleted(j) \/ FailJob(j) \/ MarkFailed(j)
               \/ MarkCancelled(j)
      BY <3>3 DEF AfterLoop, MarkCompleted, FailJob, MarkFailed, MarkCancelled, PcPoints,
                  LivePoints, Statuses
    <3> QED  BY <1>3, <3>1, <3>2, <3>3 DEF Stream
  <2>2. \A k \in Jobs : k # j => pc'[k] = pc[k]
    BY <2>1 DEF Goto, TypeOK
  <2>3. \A k \in Jobs : diskStatus[k] # "NONE" => status'[k] # "NONE"
    BY <2>1 DEF Mark, TypeOK, QueueInv, OnFile
  <2>4. OnFile'
    BY <2>1, <2>2, <2>3 DEF QueueInv, OnFile
  <2>5. Apart'
    BY <1>0, <2>1, <2>2, QueueElements DEF QueueInv, Apart
  <2>6. Placing'
    BY <1>0, <2>1, <2>2 DEF QueueInv, Placing, TypeOK
  <2> QED  BY <2>1, <2>4, <2>5, <2>6 DEF QueueInv, NoTwice
<1> QED  BY <1>1, <1>2, <1>3

\* A restart rebuilds a safe queue from the files.
LEMMA RestartQueue == TypeOK /\ Restart => QueueInv'
<1> SUFFICES ASSUME TypeOK, Restart PROVE QueueInv'
  OBVIOUS
<1>1. PICK gone \in SUBSET Jobs :
        /\ diskStatus' = [j \in Jobs |-> IF j \in gone THEN "FAILED" ELSE diskStatus[j]]
        /\ status' = [j \in Jobs |-> IF j \in Again(gone) THEN "QUEUED" ELSE diskStatus'[j]]
        /\ TakeUp(Again(gone))
  BY DEF Restart
<1> DEFINE S == Again(gone)
<1>2. S \in SUBSET Jobs /\ \A j \in S : diskStatus'[j] \in Resumable
  BY <1>1 DEF Again
<1>3. \A j \in Jobs : diskStatus'[j] # "NONE" => status'[j] # "NONE"
  BY <1>1
<1>4. ctl' = "idle"
  BY DEF Restart, Return
<1>5. TakeUp(S)
  BY <1>1
<1> HIDE DEF S
<1>6. CASE S = {}
  <2>1. active' = NoJob /\ queue' = <<>> /\ \A j \in Jobs : pc'[j] = "none"
    BY <1>5, <1>6 DEF TakeUp, Empty
  <2>2. Len(queue') = 0
    BY <2>1
  <2> QED
    BY <1>3, <1>4, <2>1, <2>2, JobsAssumption DEF QueueInv, OnFile, Apart, NoTwice, Placing
<1>7. CASE S # {}
  <2>1. PICK order \in OldestFirst(S) :
          /\ active' = order[1]
          /\ queue' = [i \in 1..Cardinality(S) - 1 |-> order[i + 1]]
          /\ pc' = [j \in Jobs |-> IF j = order[1] THEN "begin" ELSE "none"]
    BY <1>5, <1>7 DEF TakeUp
  <2>2. Cardinality(S) \in Nat /\ Cardinality(S) > 0
    BY <1>2, <1>7, JobsAssumption, FS_Subset, FS_CardinalityType, FS_EmptySet
  <2>3. /\ order \in [1..Cardinality(S) -> S]
        /\ \A m, n \in 1..Cardinality(S) : m < n => created[order[m]] < created[order[n]]
    BY DEF OldestFirst
  <2>4. \A n \in 1..Cardinality(S) : order[n] \in Jobs /\ created[order[n]] \in Nat
    BY <1>2, <2>3 DEF TypeOK
  <2>5. \A m, n \in 1..Cardinality(S) : order[m] = order[n] => m = n
    <3> SUFFICES ASSUME NEW m \in 1..Cardinality(S), NEW n \in 1..Cardinality(S),
                        order[m] = order[n], m # n
                 PROVE  FALSE
      OBVIOUS
    <3>1. m < n \/ n < m
      BY <2>2
    <3>2. created[order[m]] < created[order[n]] \/ created[order[n]] < created[order[m]]
      BY <2>3, <3>1
    <3> QED  BY <2>4, <3>2
  <2>6. /\ Len(queue') = Cardinality(S) - 1
        /\ \A n \in 1..Len(queue') : /\ n + 1 \in 1..Cardinality(S) /\ n + 1 # 1
                                    /\ queue'[n] = order[n + 1]
    BY <2>1, <2>2
  <2>7. 1 \in 1..Cardinality(S)
    BY <2>2
  <2>8. Apart'
    BY <1>2, <1>4, <2>1, <2>3, <2>4, <2>5, <2>6, <2>7 DEF Apart
  <2>9. NoTwice'
    <3>1. \A m, n \in 1..Len(queue') : m + 1 = n + 1 => m = n
      BY <2>2, <2>6
    <3> QED  BY <2>5, <2>6, <3>1 DEF NoTwice
  <2>10. OnFile'
    BY <1>2, <1>3, <2>1, <2>3, <2>7 DEF OnFile, Resumable
  <2> QED  BY <1>4, <2>8, <2>9, <2>10 DEF QueueInv, Placing
<1> QED  BY <1>6, <1>7

\* QueueInv holds throughout.
THEOREM QueueInvariant == Spec => []QueueInv
<1>1. Init => QueueInv
  BY JobsAssumption DEF Init, Empty, QueueInv, OnFile, Apart, NoTwice, Placing
<1>2. TypeOK /\ SlotOwned /\ QueueInv /\ [Next]_vars => QueueInv'
  <2> SUFFICES ASSUME TypeOK, SlotOwned, QueueInv, [Next]_vars PROVE QueueInv'
    OBVIOUS
  <2>1. CASE UNCHANGED vars
    BY <2>1 DEF vars, job, disk, sched, lock, QueueInv, OnFile, Apart, NoTwice, Placing
  <2> QED  BY <2>1, ControlQueue, StreamQueue, RestartQueue DEF Next
<1>3. Init => SlotOwned
  BY DEF Init, Empty, SlotOwned, LivePoints
<1> QED  BY <1>1, <1>2, <1>3, SlotOwnedStep, TypeCorrect, PTL DEF Spec

\* No accepted job is lost or runs twice: a waiting job is not running, waits
\* once, and its file brings it back after a restart (job_manager.py:12-15).
THEOREM WaitingJobsStaySafe == Spec => []WaitingJobsSafe
<1>1. TypeOK /\ QueueInv => WaitingJobsSafe
  <2> SUFFICES ASSUME TypeOK, QueueInv PROVE WaitingJobsSafe
    OBVIOUS
  <2>1. DOMAIN queue = 1..Len(queue)
    BY DEF TypeOK
  <2> QED  BY <2>1 DEF QueueInv, Apart, NoTwice, WaitingJobsSafe
<1> QED  BY <1>1, QueueInvariant, TypeCorrect, PTL

-----------------------------------------------------------------------------
(* What a crash may repeat.  The file and the Job object differ only       *)
(* between the increment after a line and the save that follows it.        *)

Replay(j) ==
    /\ idx[j] <= lastSent[j] /\ lastSent[j] <= idx[j] + 1
    /\ pc[j] # "save_line" => diskIdx[j] = idx[j]
    /\ pc[j] = "sending" => lastSent[j] = idx[j] + 1
    /\ pc[j] = "save_line" => /\ lastSent[j] = idx[j]
                              /\ diskIdx[j] <= idx[j] /\ idx[j] <= diskIdx[j] + 1

ReplayInv == \A j \in Jobs : Replay(j)

\* A thread that starts comes from a point where file and object agree.
LEMMA StartKeepsReplay ==
  ASSUME NEW k \in Jobs, Replay(k), TypeOK, UNCHANGED <<idx, diskIdx, lastSent>>,
         \/ pc'[k] = pc[k]
         \/ pc[k] # "save_line" /\ pc'[k] \notin {"save_line", "sending"}
  PROVE  Replay(k)'
  BY DEF Replay

\* When no save fails, every step keeps file, object and printer together.
LEMMA ReplayStep ==
  ASSUME StoreMayFail = FALSE, TypeOK, QueueInv, ReplayInv, [Next]_vars
  PROVE  ReplayInv'
<1> USE DEF job, disk, sched, lock, evs, hist
<1> SUFFICES ASSUME NEW k \in Jobs PROVE Replay(k)'
  BY DEF ReplayInv
<1>0. /\ Replay(k)
      /\ idx[k] \in Nat /\ diskIdx[k] \in Nat /\ lastSent[k] \in Nat
  BY DEF ReplayInv, TypeOK
<1>1. ASSUME NEW j \in Jobs, Written(j), UNCHANGED <<idx, pc, lastSent>> PROVE Replay(k)'
  <2>1. diskIdx'[k] = diskIdx[k] \/ diskIdx'[k] = idx[k]
    BY <1>1 DEF Written, TypeOK
  <2> QED  BY <1>0, <1>1, <2>1 DEF Replay
<1>2. CASE UNCHANGED <<idx, diskIdx, lastSent, pc>>
  BY <1>0, <1>2 DEF Replay
<1>3. CASE Control
  <2>1. CASE SubmitPlace
    <3>1. pc[target] = "none" /\ target \in Jobs
      BY <2>1 DEF SubmitPlace, At, TypeOK, QueueInv, Placing
    <3>2. UNCHANGED <<idx, diskIdx, lastSent>>
      BY <2>1 DEF SubmitPlace
    <3>3. pc' = pc \/ pc' = [pc EXCEPT ![target] = "begin"]
      BY <2>1 DEF SubmitPlace, StartJob, Goto
    <3> QED  BY <1>0, <3>1, <3>2, <3>3, StartKeepsReplay DEF TypeOK
  <2>2. ASSUME NEW j \in Jobs, SubmitSave(j) PROVE Replay(k)'
    BY <1>1, <1>2, <2>2 DEF SubmitSave
  <2>3. CASE PauseSave \/ ResumeSave \/ CancelSave \/ WithdrawSave
    <3>1. target \in Jobs /\ Written(target) /\ UNCHANGED <<idx, pc, lastSent>>
      BY <2>3 DEF PauseSave, ResumeSave, CancelSave, WithdrawSave, Persist, At, TypeOK
    <3> QED  BY <1>1, <3>1
  <2>4. CASE \/ PauseMark \/ PauseReturn \/ ResumeMark \/ CancelCheck \/ CancelMark
             \/ \E j \in Jobs : \/ Create(j) \/ Pause(j) \/ Resume(j) \/ CancelActive(j)
                               \/ Withdraw(j) \/ Fail(j)
    BY <1>2, <2>4 DEF PauseMark, PauseReturn, ResumeMark, CancelCheck, CancelMark, Create,
                      Pause, Resume, CancelActive, Withdraw, Fail
  <2> QED  BY <1>3, <2>1, <2>2, <2>3, <2>4 DEF Control
<1>4. ASSUME NEW j \in Jobs, Stream(j) PROVE Replay(k)'
  <2>1. CASE Save(j)
    <3>1. /\ UNCHANGED <<idx, lastSent>> /\ Written(j)
          /\ pc' = [pc EXCEPT ![j] = AfterSave[pc[j]]]
          /\ AfterSave[pc[j]] \notin {"save_line", "sending"}
      BY <2>1 DEF Save, Persist, Goto, AfterSave
    <3>2. diskIdx'[j] = idx[j] /\ pc'[j] = AfterSave[pc[j]]
      BY <3>1 DEF Written, TypeOK
    <3>3. k # j => diskIdx'[k] = diskIdx[k] /\ pc'[k] = pc[k]
      BY <3>1 DEF Written, TypeOK
    <3> QED  BY <1>0, <3>1, <3>2, <3>3 DEF Replay
  <2>2. CASE SendLine(j)
    <3>1. /\ UNCHANGED <<idx, diskIdx>> /\ pc[j] = "send"
          /\ pc'[j] = "sending" /\ lastSent'[j] = idx[j] + 1
          /\ k # j => pc'[k] = pc[k] /\ lastSent'[k] = lastSent[k]
      BY <2>2 DEF SendLine, Goto, TypeOK
    <3> QED  BY <1>0, <3>1 DEF Replay
  <2>3. CASE LineSucceeded(j)
    <3>1. /\ UNCHANGED <<lastSent, diskIdx>> /\ pc[j] = "sending"
          /\ pc'[j] = "save_line" /\ idx'[j] = idx[j] + 1
          /\ k # j => pc'[k] = pc[k] /\ idx'[k] = idx[k]
      BY <2>3 DEF LineSucceeded, Goto, TypeOK
    <3> QED  BY <1>0, <3>1 DEF Replay
  <2>4. CASE Finish(j)
    <3>1. UNCHANGED <<idx, diskIdx, lastSent>> /\ pc[j] # "save_line"
      BY <2>4 DEF Finish
    <3>2. CASE queue = <<>>
      <4>1. pc'[k] = pc[k] \/ (k = j /\ pc'[k] \in {"done", "save_done"})
        BY <2>4, <3>2 DEF Finish, Goto, TypeOK
      <4> QED  BY <1>0, <3>1, <4>1, StartKeepsReplay
    <3>3. CASE queue # <<>>
      <4>1. Head(queue) \in Jobs /\ pc[Head(queue)] = "none"
        <5>1. queue \in Seq(Jobs)
          BY DEF TypeOK
        <5>2. 1 \in 1..Len(queue) /\ Head(queue) = queue[1]
          BY <3>3, <5>1
        <5> QED  BY <5>2, QueueElements DEF QueueInv, Apart
      <4>2. \/ pc'[k] = pc[k]
            \/ k = j /\ pc'[k] \in {"done", "save_done"}
            \/ k = Head(queue) /\ pc'[k] = "begin"
        BY <2>4, <3>3, <4>1 DEF Finish, TypeOK
      <4> QED  BY <1>0, <3>1, <4>1, <4>2, StartKeepsReplay
    <3> QED  BY <3>2, <3>3
  <2>5. CASE \/ Begin(j) \/ MarkStarted(j) \/ LoopTop(j) \/ PauseCheck(j) \/ LineFailed(j)
             \/ MarkHeld(j) \/ LeaveHold(j)
    <3>1. /\ UNCHANGED <<idx, diskIdx, lastSent>> /\ pc[j] # "save_line"
          /\ \E p \in PcPoints \ {"save_line", "sending"} : Goto(j, p)
      BY <2>5 DEF Begin, MarkStarted, LoopTop, PauseCheck, LineFailed, MarkHeld, LeaveHold,
                  PcPoints, LivePoints
    <3> QED  BY <1>0, <3>1, StartKeepsReplay DEF Goto, TypeOK
  <2>6. CASE \/ MarkUnheld(j) \/ AfterLoop(j) \/ MarkCompleted(j) \/ FailJob(j)
             \/ MarkFailed(j) \/ MarkCancelled(j)
    <3>1. /\ UNCHANGED <<idx, diskIdx, lastSent>> /\ pc[j] # "save_line"
          /\ \E p \in PcPoints \ {"save_line", "sending"} : Goto(j, p)
      BY <2>6 DEF MarkUnheld, AfterLoop, MarkCompleted, FailJob, MarkFailed, MarkCancelled,
                  PcPoints, LivePoints
    <3> QED  BY <1>0, <3>1, StartKeepsReplay DEF Goto, TypeOK
  <2> QED  BY <1>4, <2>1, <2>2, <2>3, <2>4, <2>5, <2>6 DEF Stream
<1>5. CASE Restart
  <2>1. idx' = diskIdx /\ UNCHANGED <<diskIdx, lastSent>>
    BY <1>5 DEF Restart
  <2>2. PICK S \in SUBSET Jobs : TakeUp(S)
    BY <1>5 DEF Restart, Again
  <2>3. pc'[k] \in {"none", "begin"}
    BY <2>2 DEF TakeUp, Empty
  <2> QED  BY <1>0, <2>1, <2>3 DEF Replay
<1> QED  BY <1>2, <1>3, <1>4, <1>5 DEF Next, vars

\* With a store that does not fail, a restart skips no line of a job and
\* repeats at most the one that was under way when the process was killed.
THEOREM NoLineSkipped ==
  ASSUME StoreMayFail = FALSE
  PROVE  Spec => []ReplayWindow
<1>1. Init => ReplayInv
  BY DEF Init, Empty, ReplayInv, Replay
<1>2. TypeOK /\ QueueInv /\ ReplayInv /\ [Next]_vars => ReplayInv'
  BY ReplayStep
<1>3. TypeOK /\ ReplayInv => ReplayWindow
  <2> SUFFICES ASSUME TypeOK, ReplayInv, NEW j \in Jobs
               PROVE  /\ diskIdx[j] <= idx[j] /\ idx[j] <= lastSent[j]
                      /\ lastSent[j] <= diskIdx[j] + 1
    BY DEF ReplayWindow
  <2>1. idx[j] \in Nat /\ diskIdx[j] \in Nat /\ lastSent[j] \in Nat /\ Replay(j)
    BY DEF TypeOK, ReplayInv
  <2> QED  BY <2>1 DEF Replay
<1> QED  BY <1>1, <1>2, <1>3, QueueInvariant, TypeCorrect, PTL DEF Spec

\* With a store that does not fail, the lines of a job reach the printer in
\* file order, across pauses and restarts.
THEOREM FileOrder ==
  ASSUME StoreMayFail = FALSE
  PROVE  Spec => LinesInOrder
<1> DEFINE InOrder == \A j \in Jobs :
                        lastSent'[j] # lastSent[j] => lastSent'[j] = lastSent[j] + 1
<1>1. Init => ReplayInv
  BY DEF Init, Empty, ReplayInv, Replay
<1>2. TypeOK /\ QueueInv /\ ReplayInv /\ [Next]_vars => ReplayInv'
  BY ReplayStep
<1>3. TypeOK /\ ReplayInv /\ [Next]_vars => [InOrder]_vars
  <2> SUFFICES ASSUME TypeOK, ReplayInv, Next PROVE InOrder
    OBVIOUS
  <2> USE DEF hist
  <2>1. CASE \E j \in Jobs : SendLine(j)
    <3>1. PICK j \in Jobs : SendLine(j)
      BY <2>1
    <3>2. /\ lastSent'[j] = idx[j] + 1
          /\ \A k \in Jobs : k # j => lastSent'[k] = lastSent[k]
      BY <3>1 DEF SendLine, TypeOK
    <3>3. idx[j] \in Nat /\ lastSent[j] \in Nat /\ Replay(j)
      BY DEF TypeOK, ReplayInv
    <3> QED  BY <3>2, <3>3 DEF Replay
  <2>2. CASE ~ \E j \in Jobs : SendLine(j)
    <3>1. lastSent' = lastSent
      <4>1. CASE Control
        BY <4>1 DEF Control, Create, SubmitSave, SubmitPlace, Pause, PauseMark, PauseSave,
             PauseReturn, Resume, ResumeMark, ResumeSave, CancelActive, CancelCheck,
             CancelMark, CancelSave, Withdraw, WithdrawSave, Fail
      <4>2. ASSUME NEW j \in Jobs, Stream(j) PROVE lastSent' = lastSent
        BY <2>2, <4>2 DEF Stream, Begin, MarkStarted, Save, LoopTop, PauseCheck,
             LineSucceeded, LineFailed, MarkHeld, LeaveHold, MarkUnheld, AfterLoop,
             MarkCompleted, FailJob, MarkFailed, MarkCancelled, Finish
      <4>3. CASE Restart
        BY <4>3 DEF Restart
      <4> QED  BY <4>1, <4>2, <4>3 DEF Next
    <3> QED  BY <3>1
  <2> QED  BY <2>1, <2>2
<1>4. [InOrder]_vars <=> [\A j \in Jobs :
          lastSent'[j] # lastSent[j] => lastSent'[j] = lastSent[j] + 1]_vars
  OBVIOUS
<1> HIDE DEF InOrder
<1> QED
  BY <1>1, <1>2, <1>3, <1>4, QueueInvariant, TypeCorrect, PTL DEF Spec, LinesInOrder

=============================================================================
