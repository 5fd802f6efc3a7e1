------------------------- MODULE JobRequestsProofs -------------------------
(***************************************************************************)
(* Proofs about JobControl: what a pause, a cancel, a fail or a withdrawal *)
(* that the manager has accepted does to the job it is about, for any      *)
(* finite set of jobs, any line counts, any number of restarts and a store *)
(* that may fail or not.                                                   *)
(***************************************************************************)
EXTENDS JobControlProofs

-----------------------------------------------------------------------------
(* A request is seen before the line after the next.  What the executor    *)
(* has read of the Events since the top of its loop may be out of date;    *)
(* a request it has not seen yet found no line begun since.                *)

Prompt(j) ==
    /\ late[j] <= 1
    /\ pc[j] = "pause_check" /\ (cancelEv[j] \/ failEv[j]) => late[j] = 0
    /\ pc[j] = "send" /\ (pauseEv[j] \/ cancelEv[j] \/ failEv[j]) => late[j] = 0

PromptInv == \A j \in Jobs : Prompt(j)

\* A step that begins no line, asks for nothing and leads to neither check.
LEMMA QuietKeepsPrompt ==
  ASSUME TypeOK, NEW k \in Jobs, Prompt(k),
         late'[k] = late[k] \/ late'[k] = 0,
         \/ pc'[k] \notin {"pause_check", "send"}
         \/ /\ pc'[k] = pc[k]
            /\ pauseEv'[k] => pauseEv[k]
            /\ cancelEv'[k] => cancelEv[k]
            /\ failEv'[k] => failEv[k]
         \/ late'[k] = 0
  PROVE  Prompt(k)'
  BY DEF Prompt, TypeOK

\* A request: the count starts again, unless an earlier one is still standing.
LEMMA ControlPrompt ==
  ASSUME TypeOK, Control, NEW k \in Jobs, Prompt(k)
  PROVE  Prompt(k)'
<1> USE DEF job, disk, sched, lock, evs, hist
<1>1. CASE UNCHANGED <<pc, evs, late>>
  BY <1>1, QuietKeepsPrompt
<1>2. ASSUME NEW j \in Jobs, Pause(j) PROVE Prompt(k)'
  <2>1. UNCHANGED <<pc, cancelEv, failEv>>
    BY <1>2 DEF Pause
  <2>2. CASE UNCHANGED <<pauseEv, late>>
    BY <2>1, <2>2, QuietKeepsPrompt
  <2>3. CASE /\ pauseEv' = [pauseEv EXCEPT ![j] = TRUE]
             /\ late' = [late EXCEPT ![j] = 0]
    <3>1. IF k = j THEN late'[k] = 0 ELSE UNCHANGED <<pauseEv[k], late[k]>>
      BY <2>3 DEF TypeOK
    <3> QED  BY <2>1, <3>1, QuietKeepsPrompt
  <2> QED  BY <1>2, <2>2, <2>3 DEF Pause
<1>3. ASSUME NEW j \in Jobs, Resume(j) PROVE Prompt(k)'
  <2>1. UNCHANGED <<pc, cancelEv, failEv, late>> /\ (pauseEv'[k] => pauseEv[k])
    BY <1>3 DEF Resume, TypeOK
  <2> QED  BY <2>1, QuietKeepsPrompt
<1>4. ASSUME NEW j \in Jobs, CancelActive(j) PROVE Prompt(k)'
  <2>1. /\ UNCHANGED pc
        /\ k # j => UNCHANGED <<pauseEv[k], cancelEv[k], failEv[k], late[k]>>
        /\ ~cancelEv[j] => late'[j] = 0
        /\ cancelEv[j] => late'[j] = late[j] /\ ~pauseEv'[j] /\ ~failEv'[j]
    BY <1>4 DEF CancelActive, TypeOK
  <2> QED  BY <2>1, QuietKeepsPrompt
<1>5. ASSUME NEW j \in Jobs, Fail(j) PROVE Prompt(k)'
  <2>1. /\ UNCHANGED <<pc, cancelEv>>
        /\ k # j => UNCHANGED <<pauseEv[k], failEv[k], late[k]>>
        /\ ~(cancelEv[j] \/ failEv[j]) => late'[j] = 0
        /\ cancelEv[j] \/ failEv[j] => late'[j] = late[j]
    BY <1>5 DEF Fail, TypeOK
  <2>2. k = j /\ (cancelEv[j] \/ failEv[j]) => Prompt(k)'
    BY <2>1 DEF Prompt
  <2> QED  BY <2>1, <2>2, QuietKeepsPrompt
<1>6. CASE SubmitPlace
  <2>1. UNCHANGED late /\ target \in Jobs
    BY <1>6 DEF SubmitPlace, At, TypeOK
  <2>2. CASE StartJob(target)
    <3>1. IF k = target THEN pc'[k] = "begin"
          ELSE UNCHANGED <<pc[k], pauseEv[k], cancelEv[k], failEv[k]>>
      BY <2>1, <2>2 DEF StartJob, Goto, Clear, TypeOK
    <3> QED  BY <2>1, <3>1, QuietKeepsPrompt
  <2> QED  BY <1>1, <1>6, <2>1, <2>2 DEF SubmitPlace
<1>7. CASE \/ PauseMark \/ PauseSave \/ ResumeMark \/ ResumeSave \/ PauseReturn
           \/ CancelCheck \/ CancelMark \/ CancelSave \/ WithdrawSave
           \/ \E j \in Jobs : Create(j) \/ SubmitSave(j) \/ Withdraw(j)
  <2>1. UNCHANGED <<pc, evs, late>>
    BY <1>7 DEF PauseMark, PauseSave, ResumeMark, ResumeSave, PauseReturn, CancelCheck,
       CancelMark, CancelSave, WithdrawSave, Create, SubmitSave, Withdraw
  <2> QED  BY <1>1, <2>1
<1> QED  BY <1>2, <1>3, <1>4, <1>5, <1>6, <1>7 DEF Control

\* The executor: the top of the loop is passed without a cancel or a fail, the
\* pause check without a pause, and a line follows.
LEMMA StreamPrompt ==
  ASSUME TypeOK, NEW j \in Jobs, Stream(j), NEW k \in Jobs, Prompt(k)
  PROVE  Prompt(k)'
<1> USE DEF job, disk, sched, lock, evs, hist
<1>1. CASE LoopTop(j)
  <2>1. UNCHANGED <<evs, late>> /\ (k # j => pc'[k] = pc[k])
    BY <1>1 DEF LoopTop, Goto, TypeOK
  <2>2. pc'[j] = "pause_check" => ~failEv[j] /\ ~cancelEv[j]
    BY <1>1 DEF LoopTop, Goto, TypeOK
  <2>3. pc'[j] # "send"
    BY <1>1 DEF LoopTop, Goto, TypeOK
  <2> QED  BY <2>1, <2>2, <2>3 DEF Prompt
<1>2. CASE PauseCheck(j)
  <2>1. UNCHANGED <<evs, late>> /\ pc[j] = "pause_check" /\ (k # j => pc'[k] = pc[k])
    BY <1>2 DEF PauseCheck, Goto, TypeOK
  <2>2. pc'[j] = "send" => ~pauseEv[j]
    BY <1>2 DEF PauseCheck, Goto, TypeOK
  <2>3. pc'[j] # "pause_check"
    BY <1>2 DEF PauseCheck, Goto, TypeOK
  <2> QED  BY <2>1, <2>2, <2>3 DEF Prompt
<1>3. CASE SendLine(j)
  <2>1. UNCHANGED evs /\ pc[j] = "send" /\ pc'[j] = "sending" /\ (k # j => pc'[k] = pc[k])
    BY <1>3 DEF SendLine, Goto, TypeOK
  <2>2. late' = [late EXCEPT ![j] = IF pauseEv[j] \/ cancelEv[j] \/ failEv[j]
                                    THEN late[j] + 1 ELSE 0]
    BY <1>3 DEF SendLine
  <2>3. k # j => late'[k] = late[k]
    BY <2>2 DEF TypeOK
  <2>4. k = j => late'[k] <= 1
    BY <2>1, <2>2 DEF Prompt, TypeOK
  <2> QED  BY <2>1, <2>3, <2>4 DEF Prompt
<1>4. CASE Finish(j)
  <2>1. late'[k] = late[k] \/ late'[k] = 0
    BY <1>4 DEF Finish, TypeOK
  <2>2. \/ pc'[k] \notin {"pause_check", "send"}
        \/ UNCHANGED <<pc[k], pauseEv[k], cancelEv[k], failEv[k]>>
    <3>1. CASE queue = <<>>
      BY <1>4, <3>1 DEF Finish, Goto, Clear, TypeOK
    <3>2. CASE queue # <<>>
      <4>1. Head(queue) \in Jobs
        BY <3>2 DEF TypeOK
      <4>2. PICK next \in {"done", "save_done"} :
               pc' = [pc EXCEPT ![j] = next, ![Head(queue)] = "begin"]
        BY <1>4, <3>2 DEF Finish
      <4>3. Clear({j, Head(queue)})
        BY <1>4, <3>2 DEF Finish
      <4>4. CASE k = j \/ k = Head(queue)
        BY <4>1, <4>2, <4>4 DEF TypeOK
      <4>5. CASE k # j /\ k # Head(queue)
        BY <4>1, <4>2, <4>3, <4>5 DEF Clear, TypeOK
      <4> QED  BY <4>4, <4>5
    <3> QED  BY <3>1, <3>2
  <2> QED  BY <2>1, <2>2, QuietKeepsPrompt
<1>5. CASE \/ Begin(j) \/ MarkStarted(j) \/ Save(j) \/ LineSucceeded(j) \/ LineFailed(j)
           \/ MarkHeld(j) \/ LeaveHold(j) \/ MarkUnheld(j) \/ AfterLoop(j)
  <2>1. UNCHANGED <<evs, late>> /\ \E p \in PcPoints \ {"pause_check", "send"} : Goto(j, p)
    BY <1>5 DEF Begin, MarkStarted, Save, AfterSave, LineSucceeded, LineFailed, MarkHeld,
       LeaveHold, MarkUnheld, AfterLoop, PcPoints, LivePoints
  <2> QED  BY <2>1, QuietKeepsPrompt DEF Goto, TypeOK
<1>6. CASE MarkCompleted(j) \/ FailJob(j) \/ MarkFailed(j) \/ MarkCancelled(j)
  <2>1. UNCHANGED <<evs, late>> /\ \E p \in PcPoints \ {"pause_check", "send"} : Goto(j, p)
    BY <1>6 DEF MarkCompleted, FailJob, MarkFailed, MarkCancelled, PcPoints, LivePoints
  <2> QED  BY <2>1, QuietKeepsPrompt DEF Goto, TypeOK
<1> QED  BY <1>1, <1>2, <1>3, <1>4, <1>5, <1>6 DEF Stream

\* After a pause, a cancel or a fail has set its Event the executor begins at
\* most one more line (job_executor.py:123-142), wherever the request finds it.
THEOREM PromptTheorem == Spec => []PromptStop
<1>1. Init => PromptInv
  BY DEF Init, Empty, PromptInv, Prompt
<1>2. TypeOK /\ PromptInv /\ [Next]_vars => PromptInv'
  <2> SUFFICES ASSUME TypeOK, PromptInv, [Next]_vars, NEW k \in Jobs PROVE Prompt(k)'
    BY DEF PromptInv
  <2>1. Prompt(k)
    BY DEF PromptInv
  <2>2. CASE Control                        BY <2>1, <2>2, ControlPrompt
  <2>3. CASE \E j \in Jobs : Stream(j)      BY <2>1, <2>3, StreamPrompt
  <2>4. CASE Restart                        BY <2>4 DEF Restart, Empty, Prompt
  <2>5. CASE UNCHANGED vars                 BY <2>1, <2>5 DEF vars, evs, hist, Prompt
  <2> QED  BY <2>2, <2>3, <2>4, <2>5 DEF Next
<1>3. PromptInv => PromptStop
  BY DEF PromptInv, Prompt, PromptStop
<1> QED  BY <1>1, <1>2, <1>3, TypeCorrect, PTL DEF Spec

-----------------------------------------------------------------------------
(* A call is about a job that exists: only such a job has a file, waits in  *)
(* the queue or holds the slot.  So Create, which sets a status too, never  *)
(* meets a job of which anything else is true.                              *)

Known == /\ \A j \in Jobs : diskStatus[j] # "NONE" => created[j] # 0
         /\ ctl # "idle" => created[target] # 0

\* A waiting job, the active one and one with a thread have been created.
LEMMA KnownPlaces ==
  ASSUME TypeOK, QueueInv, Known
  PROVE  /\ \A j \in Jobs : active = j \/ pc[j] # "none" => created[j] # 0
         /\ \A n \in 1..Len(queue) : created[queue[n]] # 0
<1>1. \A n \in 1..Len(queue) : queue[n] \in Jobs /\ diskStatus[queue[n]] # "NONE"
  BY QueueElements DEF QueueInv, Apart, Resumable
<1> QED  BY <1>1 DEF QueueInv, OnFile, Known

\* Known is kept by every step.
LEMMA KnownStep ==
  ASSUME TypeOK, QueueInv, Known, [Next]_vars
  PROVE  Known'
<1> USE DEF job, disk, sched, lock, evs, hist
<1>1. ASSUME UNCHANGED created, NEW j \in Jobs, created[j] # 0, Persist(j) \/ UNCHANGED diskStatus,
             ctl' # "idle" => created[target'] # 0
      PROVE  Known'
  <2>1. \A k \in Jobs : diskStatus'[k] # "NONE" => k = j \/ diskStatus[k] # "NONE"
    BY <1>1 DEF Persist, Written, TypeOK
  <2> QED  BY <1>1, <2>1 DEF Known
<1>2. CASE Control
  <2>1. ASSUME NEW j \in Jobs, Create(j) PROVE Known'
    <3>1. UNCHANGED <<diskStatus, ctl, target>> /\ created' = [created EXCEPT ![j] = created'[j]]
          /\ created[j] = 0
      BY <2>1 DEF Create, TypeOK
    <3>2. \A k \in Jobs : created[k] # 0 => created'[k] # 0
      BY <3>1 DEF TypeOK
    <3> QED  BY <3>1, <3>2 DEF Known, TypeOK
  <2>2. ASSUME NEW j \in Jobs, SubmitSave(j) PROVE Known'
    <3>1. /\ UNCHANGED created /\ created[j] # 0 /\ (Written(j) \/ UNCHANGED diskStatus)
          /\ ctl' # "idle" => target' = j
      BY <2>2 DEF SubmitSave, Enter, At
    <3> QED  BY <1>1, <3>1 DEF Persist
  <2>3. ASSUME NEW j \in Jobs, Pause(j) \/ Resume(j) \/ CancelActive(j) \/ Withdraw(j) \/ Fail(j)
        PROVE  Known'
    <3>1. UNCHANGED <<created, diskStatus>> /\ (ctl' # "idle" => target' = j)
      BY <2>3 DEF Pause, Resume, CancelActive, Withdraw, Fail, Enter, At
    <3>2. active = j \/ \E n \in 1..Len(queue) : queue[n] = j
      BY <2>3 DEF Pause, Resume, CancelActive, Withdraw, Fail
    <3> QED  BY <1>1, <3>1, <3>2, KnownPlaces
  <2>4. CASE CtlStep
    <3>1. /\ ctl # "idle" /\ target \in Jobs /\ UNCHANGED created
          /\ ctl' # "idle" => target' = target
      BY <2>4 DEF CtlStep, SubmitPlace, PauseMark, PauseSave, ResumeMark, ResumeSave, PauseReturn,
         CancelCheck, CancelMark, CancelSave, WithdrawSave, Enter, Return, At, TypeOK
    <3>2. Persist(target) \/ UNCHANGED diskStatus
      BY <2>4 DEF CtlStep, SubmitPlace, PauseMark, PauseSave, ResumeMark, ResumeSave, PauseReturn,
         CancelCheck, CancelMark, CancelSave, WithdrawSave
    <3> QED  BY <1>1, <3>1, <3>2 DEF Known
  <2> QED  BY <1>2, <2>1, <2>2, <2>3, <2>4 DEF Control, CtlStep
<1>3. ASSUME NEW j \in Jobs, Stream(j) PROVE Known'
  <2>1. pc[j] # "none" /\ UNCHANGED <<created, lock>> /\ (Persist(j) \/ UNCHANGED diskStatus)
    <3>1. CASE Begin(j) \/ MarkStarted(j) \/ Save(j) \/ LoopTop(j) \/ PauseCheck(j) \/ SendLine(j)
      BY <3>1 DEF Begin, MarkStarted, Save, AfterSave, LoopTop, PauseCheck, SendLine
    <3>2. CASE \/ LineSucceeded(j) \/ LineFailed(j) \/ MarkHeld(j) \/ LeaveHold(j) \/ MarkUnheld(j)
               \/ AfterLoop(j)
      BY <3>2 DEF LineSucceeded, LineFailed, MarkHeld, LeaveHold, MarkUnheld, AfterLoop
    <3>3. CASE \/ MarkCompleted(j) \/ FailJob(j) \/ MarkFailed(j) \/ MarkCancelled(j) \/ Finish(j)
      BY <3>3 DEF MarkCompleted, FailJob, MarkFailed, MarkCancelled, Finish
    <3> QED  BY <1>3, <3>1, <3>2, <3>3 DEF Stream
  <2> QED  BY <1>1, <2>1, KnownPlaces DEF Known
<1>4. CASE Restart
  <2>1. \A j \in Jobs : diskStatus'[j] # "NONE" => diskStatus[j] # "NONE"
    BY <1>4 DEF Restart, Resumable
  <2> QED  BY <1>4, <2>1 DEF Restart, Return, Known
<1>5. CASE UNCHANGED vars
  BY <1>5 DEF vars, Known
<1> QED  BY <1>2, <1>3, <1>4, <1>5 DEF Next

-----------------------------------------------------------------------------
(* A paused job can be resumed.  pause() marks the job after it has set the *)
(* Event, resume() and cancel() mark it after they have cleared the Event:  *)
(* so a job that waits with the Event set carries the mark PAUSED, or is    *)
(* about to get it back.                                                    *)

Held(j) ==
    /\ pc[j] \in {"save_hold", "hold"} /\ pauseEv[j]
          => status[j] = "PAUSED" \/ (ctl = "pause_mark" /\ target = j)
    /\ ctl \in {"resume_mark", "cancel_check", "cancel_mark"} /\ target = j => ~pauseEv[j]

HeldInv == \A j \in Jobs : Held(j)

\* Every control call keeps it.
LEMMA ControlHeld ==
  ASSUME TypeOK, QueueInv, Known, Control, NEW k \in Jobs, Held(k)
  PROVE  Held(k)'
<1> USE DEF job, disk, sched, lock, evs, hist
<1>1. ASSUME NEW j \in Jobs, Create(j) PROVE Held(k)'
  <2>1. UNCHANGED <<pc, pauseEv, lock>> /\ created[j] = 0 /\ (k # j => status'[k] = status[k])
    BY <1>1 DEF Create, Mark, TypeOK
  <2>2. pc[j] = "none"
    BY <2>1, KnownPlaces
  <2> QED  BY <2>1, <2>2 DEF Held
<1>2. ASSUME NEW j \in Jobs, SubmitSave(j) PROVE Held(k)'
  <2>1. UNCHANGED <<pc, pauseEv>> /\ ctl = "idle" /\ ctl' \in {"idle", "submit"}
        /\ status[j] = "QUEUED" /\ (status'[k] = status[k] \/ k = j)
    BY <1>2 DEF SubmitSave, Enter, At, Mark, TypeOK
  <2> QED  BY <2>1 DEF Held
<1>3. ASSUME NEW j \in Jobs, Pause(j) PROVE Held(k)'
  <2>1. /\ UNCHANGED <<pc, status>> /\ ctl = "idle" /\ target' = j
        /\ \/ ctl' = "pause_mark" /\ (k # j => pauseEv'[k] = pauseEv[k])
           \/ ctl' = "paused" /\ UNCHANGED pauseEv
    BY <1>3 DEF Pause, Enter, At, TypeOK
  <2> QED  BY <2>1 DEF Held
<1>4. ASSUME NEW j \in Jobs, Resume(j) \/ CancelActive(j) PROVE Held(k)'
  <2>1. /\ UNCHANGED <<pc, status>> /\ ctl = "idle" /\ target' = j
        /\ ~pauseEv'[j] /\ (k # j => pauseEv'[k] = pauseEv[k])
    BY <1>4 DEF Resume, CancelActive, Enter, At, TypeOK
  <2> QED  BY <2>1 DEF Held
<1>5. ASSUME NEW j \in Jobs, Fail(j) PROVE Held(k)'
  <2>1. /\ UNCHANGED <<pc, status, lock>> /\ ctl = "idle" /\ (pauseEv'[k] => pauseEv[k])
    BY <1>5 DEF Fail, At, TypeOK
  <2> QED  BY <2>1 DEF Held
<1>6. ASSUME NEW j \in Jobs, Withdraw(j) PROVE Held(k)'
  <2>1. /\ UNCHANGED <<pc, pauseEv>> /\ ctl = "idle" /\ ctl' = "withdraw_save"
        /\ k # j => status'[k] = status[k]
    BY <1>6 DEF Withdraw, Enter, At, Mark, TypeOK
  <2>2. pc[j] = "none"
    BY <1>6 DEF Withdraw, QueueInv, Apart
  <2> QED  BY <2>1, <2>2 DEF Held
<1>7. CASE SubmitPlace
  <2>1. target \in Jobs /\ ctl = "submit" /\ ctl' = "idle" /\ UNCHANGED status
    BY <1>7 DEF SubmitPlace, Return, At, TypeOK
  <2>2. \/ UNCHANGED <<pc[k], pauseEv[k]>>
        \/ pc'[k] = "begin"
    <3>1. CASE StartJob(target)
      BY <2>1, <3>1 DEF StartJob, Goto, Clear, TypeOK
    <3> QED  BY <1>7, <3>1 DEF SubmitPlace
  <2> QED  BY <2>1, <2>2 DEF Held
<1>8. CASE PauseMark \/ ResumeMark \/ CancelMark
  <2>1. /\ UNCHANGED <<pc, pauseEv, target>> /\ target \in Jobs
        /\ k # target => status'[k] = status[k]
        /\ \/ ctl = "pause_mark" /\ ctl' = "pause_save" /\ status'[target] = "PAUSED"
           \/ ctl = "resume_mark" /\ ctl' = "resume_save"
           \/ ctl = "cancel_mark" /\ ctl' = "cancel_save"
    BY <1>8 DEF PauseMark, ResumeMark, CancelMark, Enter, At, Mark, TypeOK
  <2> QED  BY <2>1 DEF Held
<1>9. CASE \/ PauseSave \/ ResumeSave \/ CancelSave \/ WithdrawSave \/ PauseReturn \/ CancelCheck
  <2>1. /\ UNCHANGED <<pc, pauseEv, status>> /\ ctl # "pause_mark"
        /\ \/ ctl' \in {"idle", "paused"}
           \/ ctl = "cancel_check" /\ ctl' = "cancel_mark" /\ target' = target
    BY <1>9 DEF PauseSave, ResumeSave, CancelSave, WithdrawSave, PauseReturn, CancelCheck, Enter,
       Return, At
  <2> QED  BY <2>1 DEF Held
<1> QED  BY <1>1, <1>2, <1>3, <1>4, <1>5, <1>6, <1>7, <1>8, <1>9 DEF Control

\* The executor marks the job PAUSED before it waits, and touches no Event.
LEMMA StreamHeld ==
  ASSUME TypeOK, NEW j \in Jobs, Stream(j), NEW k \in Jobs, Held(k)
  PROVE  Held(k)'
<1> USE DEF job, disk, sched, lock, evs, hist
<1>1. CASE MarkHeld(j)
  <2>1. /\ UNCHANGED <<pauseEv, lock>> /\ status'[j] = "PAUSED"
        /\ k # j => status'[k] = status[k] /\ pc'[k] = pc[k]
    BY <1>1 DEF MarkHeld, Mark, Goto, TypeOK
  <2> QED  BY <2>1 DEF Held
<1>2. CASE Save(j)
  <2>1. UNCHANGED <<status, pauseEv, lock>> /\ (k # j => pc'[k] = pc[k])
        /\ (pc'[j] = "hold" => pc[j] = "save_hold") /\ pc'[j] # "save_hold"
    BY <1>2 DEF Save, AfterSave, Goto, TypeOK
  <2> QED  BY <2>1 DEF Held
<1>3. CASE Finish(j)
  <2>1. UNCHANGED <<status, lock>> /\ ctl = "idle"
    BY <1>3 DEF Finish, At
  <2>2. \/ pc'[k] \notin {"save_hold", "hold"}
        \/ UNCHANGED <<pc[k], pauseEv[k]>>
    <3>1. CASE queue = <<>>
      BY <1>3, <3>1 DEF Finish, Goto, Clear, TypeOK
    <3>2. CASE queue # <<>>
      <4>1. Head(queue) \in Jobs
        BY <3>2 DEF TypeOK
      <4>2. PICK next \in {"done", "save_done"} :
               pc' = [pc EXCEPT ![j] = next, ![Head(queue)] = "begin"]
        BY <1>3, <3>2 DEF Finish
      <4>3. Clear({j, Head(queue)})
        BY <1>3, <3>2 DEF Finish
      <4>4. CASE k = j \/ k = Head(queue)
        BY <4>1, <4>2, <4>4 DEF TypeOK
      <4>5. CASE k # j /\ k # Head(queue)
        BY <4>1, <4>2, <4>3, <4>5 DEF Clear, TypeOK
      <4> QED  BY <4>4, <4>5
    <3> QED  BY <3>1, <3>2
  <2> QED  BY <2>1, <2>2 DEF Held
<1>4. CASE /\ UNCHANGED <<pauseEv, lock>>
           /\ \E p \in PcPoints \ {"save_hold", "hold"} : Goto(j, p)
           /\ \E s \in Statuses : UNCHANGED status \/ Mark(j, s)
  <2>1. /\ pc'[j] \notin {"save_hold", "hold"}
        /\ k # j => status'[k] = status[k] /\ pc'[k] = pc[k]
    BY <1>4 DEF Goto, Mark, TypeOK
  <2> QED  BY <1>4, <2>1 DEF Held
<1>5. CASE \/ Begin(j) \/ MarkStarted(j) \/ LoopTop(j) \/ PauseCheck(j) \/ SendLine(j)
           \/ LineSucceeded(j) \/ LineFailed(j) \/ LeaveHold(j)
  BY <1>4, <1>5 DEF Begin, MarkStarted, LoopTop, PauseCheck, SendLine, LineSucceeded, LineFailed,
     LeaveHold, PcPoints, LivePoints, Statuses
<1>6. CASE \/ MarkUnheld(j) \/ AfterLoop(j) \/ MarkCompleted(j) \/ FailJob(j) \/ MarkFailed(j)
           \/ MarkCancelled(j)
  BY <1>4, <1>6 DEF MarkUnheld, AfterLoop, MarkCompleted, FailJob, MarkFailed, MarkCancelled,
     PcPoints, LivePoints, Statuses
<1> QED  BY <1>1, <1>2, <1>3, <1>5, <1>6 DEF Stream

\* An executor that waits in the pause loop (job_executor.py:174-190) can be
\* resumed: the status that resume() insists on (job_executor.py:73) is there.
THEOREM HeldTheorem == Spec => []HeldJobResumable
<1>1. Init => HeldInv /\ Known
  BY DEF Init, Empty, HeldInv, Held, Known
<1>2. TypeOK /\ QueueInv /\ Known /\ HeldInv /\ [Next]_vars => HeldInv'
  <2> SUFFICES ASSUME TypeOK, QueueInv, Known, HeldInv, [Next]_vars, NEW k \in Jobs
               PROVE  Held(k)'
    BY DEF HeldInv
  <2>1. Held(k)
    BY DEF HeldInv
  <2>2. CASE Control                        BY <2>1, <2>2, ControlHeld
  <2>3. CASE \E j \in Jobs : Stream(j)      BY <2>1, <2>3, StreamHeld
  <2>4. CASE Restart                        BY <2>4 DEF Restart, Return, Empty, Held
  <2>5. CASE UNCHANGED vars                 BY <2>1, <2>5 DEF vars, evs, job, lock, Held
  <2> QED  BY <2>2, <2>3, <2>4, <2>5 DEF Next
<1>3. TypeOK /\ QueueInv /\ Known /\ [Next]_vars => Known'
  BY KnownStep
<1>4. HeldInv => HeldJobResumable
  BY DEF HeldInv, Held, HeldJobResumable
<1> QED  BY <1>1, <1>2, <1>3, <1>4, QueueInvariant, TypeCorrect, PTL DEF Spec

-----------------------------------------------------------------------------
(* A withdrawn job does not come back.  Whatever starts or waits to start   *)
(* is QUEUED: the status of a waiting job is changed only by the withdrawal *)
(* that takes it out of the queue, as the other calls are about the active  *)
(* job until they return the lock.                                          *)

Marking == {"pause_mark", "resume_mark", "cancel_check", "cancel_mark"}

Unmarked == /\ \A n \in 1..Len(queue) : status[queue[n]] = "QUEUED"
            /\ ctl = "submit" => status[target] = "QUEUED"
            /\ ctl \in Marking => target = active

\* A mark of another job leaves those that wait as they are.
LEMMA MarkElsewhere ==
  ASSUME TypeOK, QueueInv, Unmarked, UNCHANGED <<queue, active>>, NEW j \in Jobs,
         \A n \in 1..Len(queue) : queue[n] # j,
         \A k \in Jobs : k # j => status'[k] = status[k],
         ctl' = "submit" => status'[target'] = "QUEUED",
         ctl' \in Marking => target' = active'
  PROVE  Unmarked'
  BY QueueElements DEF Unmarked

\* Every control call keeps it.
LEMMA ControlUnmarked ==
  ASSUME TypeOK, QueueInv, Known, Unmarked, Control
  PROVE  Unmarked'
<1> USE DEF job, disk, sched, lock, evs, hist
<1>1. ASSUME NEW j \in Jobs, Create(j) PROVE Unmarked'
  <2>1. UNCHANGED <<queue, active, lock>> /\ created[j] = 0
        /\ (\A k \in Jobs : k # j => status'[k] = status[k])
    BY <1>1 DEF Create, Mark, TypeOK
  <2>2. ctl = "submit" => target # j
    BY <2>1 DEF Known
  <2>3. ctl = "submit" => target \in Jobs
    BY DEF TypeOK
  <2> QED  BY <2>1, <2>2, <2>3, KnownPlaces, MarkElsewhere DEF Unmarked
<1>2. ASSUME NEW j \in Jobs, SubmitSave(j) PROVE Unmarked'
  <2>1. /\ UNCHANGED <<queue, active>> /\ (\A k \in Jobs : k # j => status'[k] = status[k])
        /\ ctl' = "idle" \/ (ctl' = "submit" /\ target' = j /\ status'[j] = "QUEUED")
    BY <1>2 DEF SubmitSave, Enter, At, Mark, TypeOK
  <2>2. \A n \in 1..Len(queue) : queue[n] # j
    BY <1>2 DEF SubmitSave, QueueInv, Apart, Resumable
  <2> QED  BY <2>1, <2>2, MarkElsewhere DEF Marking
<1>3. ASSUME NEW j \in Jobs, Pause(j) \/ Resume(j) \/ CancelActive(j) \/ Fail(j)
      PROVE  Unmarked'
  <2>1. /\ UNCHANGED <<queue, active, status>>
        /\ ctl' = "idle" \/ (ctl' # "submit" /\ target' = active)
    BY <1>3 DEF Pause, Resume, CancelActive, Fail, Enter, At
  <2> QED  BY <2>1 DEF Unmarked, Marking
<1>4. ASSUME NEW j \in Jobs, Withdraw(j) PROVE Unmarked'
  <2>1. PICK i \in 1..Len(queue) : queue[i] = j /\ queue' = Without(queue, i)
    BY <1>4 DEF Withdraw
  <2>2. queue \in Seq(Jobs) /\ Len(queue) \in Nat
    BY QueueElements DEF TypeOK
  <2>3. /\ Len(queue') = Len(queue) - 1
        /\ \A n \in 1..Len(queue) - 1 :
              /\ n < i => queue'[n] = queue[n]
              /\ n >= i => queue'[n] = queue[n + 1]
    BY <2>1, <2>2, WithoutElements
  <2>4. \A n \in 1..Len(queue') : \E m \in 1..Len(queue) : m # i /\ queue'[n] = queue[m]
    <3> SUFFICES ASSUME NEW n \in 1..Len(queue')
                 PROVE  \E m \in 1..Len(queue) : m # i /\ queue'[n] = queue[m]
      OBVIOUS
    <3>1. CASE n < i
      BY <2>2, <2>3, <3>1
    <3>2. CASE n >= i
      BY <2>2, <2>3, <3>2
    <3> QED  BY <2>2, <3>1, <3>2
  <2>5. \A k \in Jobs : k # j => status'[k] = status[k]
    BY <1>4 DEF Withdraw, Mark, TypeOK
  <2>6. \A m \in 1..Len(queue) : m # i => queue[m] \in Jobs \ {j}
    BY <2>1, QueueElements DEF QueueInv, NoTwice
  <2>7. ctl' = "withdraw_save"
    BY <1>4 DEF Withdraw, Enter
  <2> QED  BY <2>4, <2>5, <2>6, <2>7 DEF Unmarked, Marking
<1>5. CASE SubmitPlace
  <2>1. ctl = "submit" /\ ctl' = "idle" /\ UNCHANGED status /\ target \in Jobs
        /\ (queue' = queue \/ queue' = Append(queue, target))
    BY <1>5 DEF SubmitPlace, Return, At, TypeOK
  <2>2. CASE queue' = queue
    BY <2>1, <2>2 DEF Unmarked, Marking
  <2>3. CASE queue' = Append(queue, target)
    <3>1. queue \in Seq(Jobs)
      BY DEF TypeOK
    <3>2. \A n \in 1..Len(queue') : queue'[n] = target \/ (n \in 1..Len(queue) /\ queue'[n] = queue[n])
      BY <2>1, <2>3, <3>1, AppendProperties
    <3> QED  BY <2>1, <3>2 DEF Unmarked, Marking
  <2> QED  BY <2>1, <2>2, <2>3
<1>6. CASE PauseMark \/ ResumeMark \/ CancelMark
  <2>1. /\ UNCHANGED <<queue, active>> /\ target \in Jobs /\ target = active
        /\ \A k \in Jobs : k # target => status'[k] = status[k]
        /\ ctl' \notin Marking \cup {"submit"}
    BY <1>6 DEF PauseMark, ResumeMark, CancelMark, Enter, At, Mark, TypeOK, Unmarked, Marking
  <2>2. \A n \in 1..Len(queue) : queue[n] # target
    BY <2>1 DEF QueueInv, Apart
  <2> QED  BY <2>1, <2>2, MarkElsewhere
<1>7. CASE \/ PauseSave \/ ResumeSave \/ CancelSave \/ WithdrawSave \/ PauseReturn \/ CancelCheck
  <2>1. /\ UNCHANGED <<queue, active, status>>
        /\ \/ ctl' \notin Marking \cup {"submit"}
           \/ ctl = "cancel_check" /\ ctl' = "cancel_mark" /\ target' = target
    BY <1>7 DEF PauseSave, ResumeSave, CancelSave, WithdrawSave, PauseReturn, CancelCheck, Enter,
       Return, At, Marking
  <2> QED  BY <2>1 DEF Unmarked, Marking
<1> QED  BY <1>1, <1>2, <1>3, <1>4, <1>5, <1>6, <1>7 DEF Control

\* A thread marks only its own job, and that one does not wait.
LEMMA StreamUnmarked ==
  ASSUME TypeOK, QueueInv, Unmarked, NEW j \in Jobs, Stream(j)
  PROVE  Unmarked'
<1> USE DEF job, disk, sched, lock, evs, hist
<1>1. CASE Finish(j)
  <2>1. UNCHANGED status /\ ctl' = "idle"
        /\ (queue' = queue \/ (queue # <<>> /\ queue' = Tail(queue)))
    BY <1>1 DEF Finish, At
  <2>2. CASE queue' = queue
    BY <2>1, <2>2 DEF Unmarked, Marking
  <2>3. CASE queue # <<>> /\ queue' = Tail(queue)
    <3>1. queue \in Seq(Jobs) /\ Len(queue) \in Nat
      BY QueueElements DEF TypeOK
    <3>2. \A n \in 1..Len(queue') : n + 1 \in 1..Len(queue) /\ queue'[n] = queue[n + 1]
      BY <2>3, <3>1
    <3> QED  BY <2>1, <3>2 DEF Unmarked, Marking
  <2> QED  BY <2>1, <2>2, <2>3
<1>2. CASE ~Finish(j)
  <2>1. /\ pc[j] # "none" /\ UNCHANGED <<queue, active, lock>>
        /\ \E s \in Statuses : UNCHANGED status \/ Mark(j, s)
    <3>1. CASE Begin(j) \/ MarkStarted(j) \/ Save(j) \/ LoopTop(j) \/ PauseCheck(j) \/ SendLine(j)
      BY <3>1 DEF Begin, MarkStarted, Save, AfterSave, LoopTop, PauseCheck, SendLine, Statuses
    <3>2. CASE \/ LineSucceeded(j) \/ LineFailed(j) \/ MarkHeld(j) \/ LeaveHold(j) \/ MarkUnheld(j)
               \/ AfterLoop(j)
      BY <3>2 DEF LineSucceeded, LineFailed, MarkHeld, LeaveHold, MarkUnheld, AfterLoop, Statuses
    <3>3. CASE MarkCompleted(j) \/ FailJob(j) \/ MarkFailed(j) \/ MarkCancelled(j)
      BY <3>3 DEF MarkCompleted, FailJob, MarkFailed, MarkCancelled, Statuses
    <3> QED  BY <1>2, <3>1, <3>2, <3>3 DEF Stream
  <2>2. /\ \A n \in 1..Len(queue) : queue[n] # j
        /\ ctl = "submit" => target # j /\ target \in Jobs
    BY <2>1 DEF QueueInv, Apart, Placing, TypeOK
  <2>3. \A k \in Jobs : k # j => status'[k] = status[k]
    BY <2>1 DEF Mark, TypeOK
  <2> QED  BY <2>1, <2>2, <2>3, MarkElsewhere DEF Unmarked
<1> QED  BY <1>1, <1>2

\* What recover() takes up it has reset to QUEUED.
LEMMA RestartUnmarked ==
  ASSUME TypeOK, Restart
  PROVE  Unmarked'
<1>1. PICK gone \in SUBSET Jobs :
        /\ status' = [j \in Jobs |-> IF j \in Again(gone) THEN "QUEUED" ELSE diskStatus'[j]]
        /\ TakeUp(Again(gone))
  BY DEF Restart
<1> DEFINE S == Again(gone)
<1>2. S \in SUBSET Jobs /\ (\A j \in S : status'[j] = "QUEUED") /\ TakeUp(S)
  BY <1>1 DEF Again
<1>3. ctl' = "idle"
  BY DEF Restart, Return
<1> HIDE DEF S
<1>4. CASE S = {}
  <2>1. queue' = <<>>
    BY <1>2, <1>4 DEF TakeUp
  <2>2. Len(queue') = 0
    BY <2>1
  <2> QED  BY <1>3, <2>2 DEF Unmarked, Marking
<1>5. CASE S # {}
  <2>1. PICK order \in OldestFirst(S) :
          queue' = [i \in 1..Cardinality(S) - 1 |-> order[i + 1]]
    BY <1>2, <1>5 DEF TakeUp
  <2>2. Cardinality(S) \in Nat /\ Cardinality(S) > 0
    BY <1>2, <1>5, JobsAssumption, FS_Subset, FS_CardinalityType, FS_EmptySet
  <2>3. order \in [1..Cardinality(S) -> S]
    BY DEF OldestFirst
  <2>4. \A n \in 1..Len(queue') : n + 1 \in 1..Cardinality(S) /\ queue'[n] = order[n + 1]
    BY <2>1, <2>2
  <2> QED  BY <1>2, <1>3, <2>3, <2>4 DEF Unmarked, Marking
<1> QED  BY <1>4, <1>5

\* A job withdrawn from the queue (job_manager.py:152-160) is not started in
\* this run of the process: only submit() and on_finished() start jobs, and the
\* job they start is QUEUED.
THEOREM WithdrawnTheorem == Spec => WithdrawnNeverStarts
<1> DEFINE Stays == \A j \in Jobs : (pc[j] = "none" /\ status[j] = "CANCELLED" /\ crashes' = crashes)
                                       => pc'[j] = "none"
<1>1. Init => Unmarked /\ Known
  BY DEF Init, Empty, Unmarked, Marking, Known
<1>2. TypeOK /\ QueueInv /\ Known /\ Unmarked /\ [Next]_vars => Unmarked'
  <2> SUFFICES ASSUME TypeOK, QueueInv, Known, Unmarked, [Next]_vars PROVE Unmarked'
    OBVIOUS
  <2>1. CASE UNCHANGED vars
    BY <2>1 DEF vars, job, sched, lock, Unmarked, Marking
  <2> QED  BY <2>1, ControlUnmarked, StreamUnmarked, RestartUnmarked DEF Next
<1>3. TypeOK /\ QueueInv /\ Known /\ [Next]_vars => Known'
  BY KnownStep
<1>4. TypeOK /\ Unmarked /\ [Next]_vars => [Stays]_vars
  <2> SUFFICES ASSUME TypeOK, Unmarked, Next, NEW k \in Jobs, pc[k] = "none",
                      status[k] = "CANCELLED", crashes' = crashes
               PROVE  pc'[k] = "none"
    OBVIOUS
  <2>1. CASE SubmitPlace
    <3>1. target # k /\ target \in Jobs
      BY <2>1 DEF SubmitPlace, At, Unmarked, TypeOK
    <3> QED  BY <2>1, <3>1 DEF SubmitPlace, StartJob, Goto, TypeOK
  <2>2. ASSUME NEW j \in Jobs, Stream(j) PROVE pc'[k] = "none"
    <3>1. CASE Finish(j)
      <4>1. pc[j] # "none"
        BY <3>1 DEF Finish
      <4>2. CASE queue = <<>>
        BY <3>1, <4>1, <4>2 DEF Finish, Goto, TypeOK
      <4>3. CASE queue # <<>>
        <5>0. queue \in Seq(Jobs)
          BY DEF TypeOK
        <5>1. Head(queue) = queue[1] /\ 1 \in 1..Len(queue) /\ Head(queue) \in Jobs
          BY <4>3, <5>0
        <5>2. Head(queue) # k
          BY <5>1 DEF Unmarked
        <5> QED  BY <3>1, <4>1, <4>3, <5>1, <5>2 DEF Finish, TypeOK
      <4> QED  BY <4>2, <4>3
    <3>2. CASE Begin(j) \/ MarkStarted(j) \/ Save(j) \/ LoopTop(j) \/ PauseCheck(j) \/ SendLine(j)
      BY <3>2 DEF Begin, MarkStarted, Save, AfterSave, LoopTop, PauseCheck, SendLine, Goto, TypeOK
    <3>3. CASE \/ LineSucceeded(j) \/ LineFailed(j) \/ MarkHeld(j) \/ LeaveHold(j) \/ MarkUnheld(j)
               \/ AfterLoop(j)
      BY <3>3 DEF LineSucceeded, LineFailed, MarkHeld, LeaveHold, MarkUnheld, AfterLoop, Goto, TypeOK
    <3>4. CASE MarkCompleted(j) \/ FailJob(j) \/ MarkFailed(j) \/ MarkCancelled(j)
      BY <3>4 DEF MarkCompleted, FailJob, MarkFailed, MarkCancelled, Goto, TypeOK
    <3> QED  BY <2>2, <3>1, <3>2, <3>3, <3>4 DEF Stream
  <2>3. CASE Control /\ ~SubmitPlace
    BY <2>3 DEF Control, Create, SubmitSave, Pause, Resume, CancelActive, Withdraw, Fail, PauseMark,
       PauseSave, PauseReturn, ResumeMark, ResumeSave, CancelCheck, CancelMark, CancelSave,
       WithdrawSave
  <2>4. CASE Restart
    BY <2>4, CrashAssumption DEF Restart, TypeOK
  <2> QED  BY <2>1, <2>2, <2>3, <2>4 DEF Next
<1>5. [Stays]_vars <=> [\A j \in Jobs :
          (pc[j] = "none" /\ status[j] = "CANCELLED" /\ crashes' = crashes)
              => pc'[j] = "none"]_vars
  OBVIOUS
<1> HIDE DEF Stays
<1> QED
  BY <1>1, <1>2, <1>3, <1>4, <1>5, QueueInvariant, TypeCorrect, PTL DEF Spec, WithdrawnNeverStarts

=============================================================================
