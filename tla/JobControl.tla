----------------------------- MODULE JobControl -----------------------------
(***************************************************************************)
(* The job layer: JobManager (the queue, the active slot, its lock), one   *)
(* JobExecutor thread per started job, the shared Job object and the file  *)
(* JobStore keeps of it.                                                   *)
(*                                                                         *)
(* Threads.  A control call (MQTT command threads, the vision thread) runs *)
(* with the manager's lock held from its first check to its last save, so  *)
(* at most one is under way: ctl says where it stands, target on which     *)
(* job.  An executor takes that lock only to hand over to the next job.    *)
(* It reads and writes the Job object and its Events with no lock at all,  *)
(* so every check, mark and save of either side is a step of its own.      *)
(*                                                                         *)
(* Not here: the content of G-code lines, timestamps other than the order  *)
(* of creation, the job-state message that follows each save, and the      *)
(* start-job messages that reach submit() while recover() still loads.     *)
(*                                                                         *)
(* Operators introduced by "Variant:" change the definition after them the *)
(* way a bug would; they are used only to see the properties fail.         *)
(***************************************************************************)
EXTENDS Integers, Sequences, FiniteSets

CONSTANTS
    Jobs,           \* the job ids that may be submitted, each once
    NumLines,       \* NumLines[j]: executable lines of job j
    MaxCrashes,     \* how often the process may be killed and restarted
    StoreMayFail,   \* whether JobStore.save may raise (disk full, I/O error)
    NoJob           \* Python's None in the active slot

ASSUME JobsAssumption    == NoJob \notin Jobs /\ IsFiniteSet(Jobs)
ASSUME LinesAssumption   == NumLines \in [Jobs -> Nat]
ASSUME CrashAssumption   == MaxCrashes \in Nat
ASSUME StoreAssumption   == StoreMayFail \in BOOLEAN

Statuses  == {"NONE", "QUEUED", "PRINTING", "PAUSED",
              "COMPLETED", "FAILED", "CANCELLED"}
Terminal  == {"COMPLETED", "FAILED", "CANCELLED"}
Resumable == {"PRINTING", "PAUSED", "QUEUED"}

VARIABLES
    status,         \* Job.status; "NONE" before the job is created
    idx,            \* Job.current_line_index
    diskStatus,     \* the status in the job's file; "NONE": no file
    diskIdx,        \* the line index in the job's file
    created,        \* rank of Job.created_at; 0: not created
    active,         \* JobManager._active (and the job of _executor)
    queue,          \* JobManager._queue
    ctl,            \* where the control call holding the lock stands
    target,         \* the job that call is about
    pc,             \* where the executor thread of each job stands
    pauseEv,        \* JobExecutor._pause_event
    cancelEv,       \* JobExecutor._cancel_event
    failEv,         \* JobExecutor._fail_event
    crashes,        \* restarts so far, at most MaxCrashes
    \* History: written, never read by a guard.
    lastSent,       \* number of the line most recently handed to the engine
    late            \* lines begun since a pause, cancel or fail was asked of
                    \* the job's executor

job   == <<status, idx>>
disk  == <<diskStatus, diskIdx>>
sched == <<active, queue, created, crashes>>
lock  == <<ctl, target>>
evs   == <<pauseEv, cancelEv, failEv>>
hist  == <<lastSent, late>>
vars  == <<job, disk, sched, lock, pc, evs, hist>>

\* paused: pause() is about to return True.
CtlPoints == {"idle", "submit", "pause_mark", "pause_save", "paused",
              "resume_mark", "resume_save", "cancel_check", "cancel_mark",
              "cancel_save", "withdraw_save"}

\* Points of _stream_loop from which on_finished has still to be called.
LivePoints == {"begin", "starting", "save_start", "top", "pause_check",
               "send", "sending", "save_line", "pausing", "save_hold", "hold",
               "unholding", "save_unhold", "after", "completing", "failing",
               "fail_stop", "cancel_stop", "save_end", "fire", "fire_done"}
PcPoints   == LivePoints \cup {"none", "save_done", "done"}

\* Points at which the thread is inside engine.send.
TalkPoints == {"sending", "pausing", "unholding", "fail_stop", "cancel_stop"}

Empty(f0) == [j \in Jobs |-> f0]

Init ==
    /\ status = Empty("NONE") /\ idx = Empty(0)
    /\ diskStatus = Empty("NONE") /\ diskIdx = Empty(0)
    /\ created = Empty(0)
    /\ active = NoJob /\ queue = <<>>
    /\ ctl = "idle" /\ target = NoJob
    /\ pc = Empty("none")
    /\ pauseEv = Empty(FALSE) /\ cancelEv = Empty(FALSE) /\ failEv = Empty(FALSE)
    /\ crashes = 0
    /\ lastSent = Empty(0) /\ late = Empty(0)

-----------------------------------------------------------------------------
(* Helpers of both sides. *)

Mark(j, s) == status' = [status EXCEPT ![j] = s]
Goto(j, p) == pc' = [pc EXCEPT ![j] = p]

\* Variant: the line index is left out of the file.
WrittenNoIndex(j) == /\ diskStatus' = [diskStatus EXCEPT ![j] = status[j]]
                     /\ UNCHANGED diskIdx

\* JobStore.save is atomic (write a temporary file, rename it).
Written(j) == /\ diskStatus' = [diskStatus EXCEPT ![j] = status[j]]
              /\ diskIdx' = [diskIdx EXCEPT ![j] = idx[j]]

\* Both sides catch a failing save, log it and go on.
Persist(j) == Written(j) \/ (StoreMayFail /\ UNCHANGED disk)

\* Variant: the call forgets its job.
EnterBlank(p, j) == ctl' = p /\ target' = NoJob

\* Take the lock for a call about j; keep it up to point p.
Enter(p, j) == ctl' = p /\ target' = j
Return      == ctl' = "idle" /\ target' = NoJob
At(p)       == ctl = p

\* The sequence s less its i-th element.
Without(s, i) == [n \in 1..Len(s) - 1 |-> IF n < i THEN s[n] ELSE s[n + 1]]

\* The Events of the jobs in S are clear: a new executor, or none any more.
Clear(S) == /\ pauseEv' = [k \in Jobs |-> k \notin S /\ pauseEv[k]]
            /\ cancelEv' = [k \in Jobs |-> k \notin S /\ cancelEv[k]]
            /\ failEv' = [k \in Jobs |-> k \notin S /\ failEv[k]]

\* _start_job: the slot is taken and a fresh executor thread starts.
StartJob(j) == active' = j /\ Goto(j, "begin") /\ Clear({j})

-----------------------------------------------------------------------------
(* Control calls. *)

\* submit, before the lock: the G-code is loaded and the Job object created.
Create(j) ==
    /\ created[j] = 0
    /\ created' = [created EXCEPT ![j] =
                       1 + Cardinality({k \in Jobs : created[k] # 0})]
    /\ Mark(j, "QUEUED")
    /\ UNCHANGED <<idx, disk, active, queue, crashes, lock, pc, evs, hist>>

\* Variant: the job is queued or started without having been saved.
SubmitUnsaved(j) ==
    /\ At("idle")
    /\ created[j] # 0 /\ diskStatus[j] = "NONE" /\ status[j] = "QUEUED"
    /\ Enter("submit", j)
    /\ UNCHANGED <<job, disk, sched, pc, evs, hist>>

\* submit, under the lock: a save that raises ends the call, the job is lost.
SubmitSave(j) ==
    /\ At("idle")
    /\ created[j] # 0 /\ diskStatus[j] = "NONE" /\ status[j] = "QUEUED"
    /\ \/ Written(j) /\ Enter("submit", j) /\ UNCHANGED status
       \/ StoreMayFail /\ Mark(j, "NONE") /\ UNCHANGED <<disk, lock>>
    /\ UNCHANGED <<idx, sched, pc, evs, hist>>

\* Variant: the active slot is not looked at.
SubmitStartsAlways ==
    /\ At("submit") /\ Return
    /\ StartJob(target)
    /\ UNCHANGED <<job, disk, queue, created, crashes, hist>>

\* submit: the job starts at once when the slot is free, else it queues up.
SubmitPlace ==
    /\ At("submit") /\ Return
    /\ \/ active = NoJob /\ StartJob(target) /\ UNCHANGED queue
       \/ active # NoJob /\ queue' = Append(queue, target)
                         /\ UNCHANGED <<active, pc, evs>>
    /\ UNCHANGED <<job, disk, created, crashes, hist>>

\* pause: returns True for the active job whether or not the executor took it.
Pause(j) ==
    /\ At("idle") /\ active = j
    /\ \/ /\ status[j] = "PRINTING"
          /\ pauseEv' = [pauseEv EXCEPT ![j] = TRUE]
          /\ late' = [late EXCEPT ![j] = 0]
          /\ Enter("pause_mark", j)
       \/ /\ status[j] # "PRINTING"
          /\ Enter("paused", j) /\ UNCHANGED <<pauseEv, late>>
    /\ UNCHANGED <<job, disk, sched, pc, cancelEv, failEv, lastSent>>

PauseMark ==
    /\ At("pause_mark") /\ Mark(target, "PAUSED") /\ Enter("pause_save", target)
    /\ UNCHANGED <<idx, disk, sched, pc, evs, hist>>

PauseSave ==
    /\ At("pause_save") /\ Persist(target) /\ Enter("paused", target)
    /\ UNCHANGED <<job, sched, pc, evs, hist>>

PauseReturn ==
    /\ At("paused") /\ Return
    /\ UNCHANGED <<job, disk, sched, pc, evs, hist>>

\* resume: without effect, and True, when the job is not PAUSED.
Resume(j) ==
    /\ At("idle") /\ active = j /\ status[j] = "PAUSED"
    /\ pauseEv' = [pauseEv EXCEPT ![j] = FALSE]
    /\ Enter("resume_mark", j)
    /\ UNCHANGED <<job, disk, sched, pc, cancelEv, failEv, lastSent, late>>

ResumeMark ==
    /\ At("resume_mark") /\ Mark(target, "PRINTING")
    /\ Enter("resume_save", target)
    /\ UNCHANGED <<idx, disk, sched, pc, evs, hist>>

ResumeSave ==
    /\ At("resume_save") /\ Persist(target) /\ Return
    /\ UNCHANGED <<job, sched, pc, evs, hist>>

\* cancel of the active job: the three Events, then the status if not terminal.
CancelActive(j) ==
    /\ At("idle") /\ active = j
    /\ cancelEv' = [cancelEv EXCEPT ![j] = TRUE]
    /\ pauseEv' = [pauseEv EXCEPT ![j] = FALSE]
    /\ failEv' = [failEv EXCEPT ![j] = FALSE]
    /\ late' = [late EXCEPT ![j] = IF cancelEv[j] THEN @ ELSE 0]
    /\ Enter("cancel_check", j)
    /\ UNCHANGED <<job, disk, sched, pc, lastSent>>

CancelCheck ==
    /\ At("cancel_check")
    /\ IF status[target] \in Terminal THEN Return ELSE Enter("cancel_mark", target)
    /\ UNCHANGED <<job, disk, sched, pc, evs, hist>>

CancelMark ==
    /\ At("cancel_mark") /\ Mark(target, "CANCELLED")
    /\ Enter("cancel_save", target)
    /\ UNCHANGED <<idx, disk, sched, pc, evs, hist>>

CancelSave ==
    /\ At("cancel_save") /\ Persist(target) /\ Return
    /\ UNCHANGED <<job, sched, pc, evs, hist>>

\* Variant: the cancelled job stays in the queue.
WithdrawMarksOnly(j) ==
    /\ At("idle") /\ active # j
    /\ \E i \in 1..Len(queue) : queue[i] = j
    /\ Mark(j, "CANCELLED")
    /\ Enter("withdraw_save", j)
    /\ UNCHANGED <<idx, disk, sched, pc, evs, hist>>

\* cancel of a waiting job: out of the queue, marked, then saved.
Withdraw(j) ==
    /\ At("idle") /\ active # j
    /\ \E i \in 1..Len(queue) : queue[i] = j /\ queue' = Without(queue, i)
    /\ Mark(j, "CANCELLED")
    /\ Enter("withdraw_save", j)
    /\ UNCHANGED <<idx, disk, active, created, crashes, pc, evs, hist>>

\* A save that raises here leaves cancel() by the exception, lock released.
WithdrawSave ==
    /\ At("withdraw_save") /\ Persist(target) /\ Return
    /\ UNCHANGED <<job, sched, pc, evs, hist>>

\* fail (from the vision thread): two Events, no mark, no save.
Fail(j) ==
    /\ At("idle") /\ active = j
    /\ failEv' = [failEv EXCEPT ![j] = TRUE]
    /\ pauseEv' = [pauseEv EXCEPT ![j] = FALSE]
    /\ late' = [late EXCEPT ![j] = IF cancelEv[j] \/ failEv[j] THEN @ ELSE 0]
    /\ UNCHANGED <<job, disk, sched, lock, pc, cancelEv, lastSent>>

-----------------------------------------------------------------------------
(* The executor thread, JobExecutor._stream_loop. *)

Begin(j) ==
    /\ pc[j] = "begin"
    /\ \/ failEv[j] /\ Goto(j, "failing") /\ UNCHANGED status
       \/ /\ ~failEv[j] /\ (cancelEv[j] \/ status[j] = "CANCELLED")
          /\ Mark(j, "CANCELLED") /\ Goto(j, "save_end")
       \/ /\ ~failEv[j] /\ ~cancelEv[j] /\ status[j] # "CANCELLED"
          /\ Goto(j, "starting") /\ UNCHANGED status
    /\ UNCHANGED <<idx, disk, sched, lock, evs, hist>>

MarkStarted(j) ==
    /\ pc[j] = "starting" /\ Mark(j, "PRINTING") /\ Goto(j, "save_start")
    /\ UNCHANGED <<idx, disk, sched, lock, evs, hist>>

\* _persist_and_publish, and where the thread goes on afterwards.
AfterSave == [save_start |-> "top", save_line |-> "top", save_unhold |-> "top",
              save_hold |-> "hold", save_end |-> "fire", save_done |-> "done"]

Save(j) ==
    /\ pc[j] \in DOMAIN AfterSave
    /\ Persist(j) /\ Goto(j, AfterSave[pc[j]])
    /\ UNCHANGED <<job, sched, lock, evs, hist>>

\* Variant: no cancel check in the loop.
LoopTopNoCancel(j) ==
    /\ pc[j] = "top"
    /\ \/ idx[j] >= NumLines[j] /\ Goto(j, "after")
       \/ idx[j] < NumLines[j] /\ failEv[j] /\ Goto(j, "failing")
       \/ idx[j] < NumLines[j] /\ ~failEv[j] /\ Goto(j, "pause_check")
    /\ UNCHANGED <<job, disk, sched, lock, evs, hist>>

\* The loop condition, then the fail check, then the cancel check.
LoopTop(j) ==
    /\ pc[j] = "top"
    /\ \/ idx[j] >= NumLines[j] /\ Goto(j, "after")
       \/ idx[j] < NumLines[j] /\ failEv[j] /\ Goto(j, "failing")
       \/ idx[j] < NumLines[j] /\ ~failEv[j] /\ cancelEv[j] /\ Goto(j, "cancel_stop")
       \/ idx[j] < NumLines[j] /\ ~failEv[j] /\ ~cancelEv[j] /\ Goto(j, "pause_check")
    /\ UNCHANGED <<job, disk, sched, lock, evs, hist>>

PauseCheck(j) ==
    /\ pc[j] = "pause_check"
    /\ Goto(j, IF pauseEv[j] THEN "pausing" ELSE "send")
    /\ UNCHANGED <<job, disk, sched, lock, evs, hist>>

\* The next line is handed to the command engine.
SendLine(j) ==
    /\ pc[j] = "send" /\ Goto(j, "sending")
    /\ lastSent' = [lastSent EXCEPT ![j] = idx[j] + 1]
    /\ late' = [late EXCEPT ![j] =
                    IF pauseEv[j] \/ cancelEv[j] \/ failEv[j] THEN @ + 1 ELSE 0]
    /\ UNCHANGED <<job, disk, sched, lock, evs>>

\* Variant: the progress of a line is not saved.
LineNotSaved(j) ==
    /\ pc[j] = "sending" /\ Goto(j, "top")
    /\ idx' = [idx EXCEPT ![j] = @ + 1]
    /\ UNCHANGED <<status, disk, sched, lock, evs, hist>>

LineSucceeded(j) ==
    /\ pc[j] = "sending" /\ Goto(j, "save_line")
    /\ idx' = [idx EXCEPT ![j] = @ + 1]
    /\ UNCHANGED <<status, disk, sched, lock, evs, hist>>

\* Variant: a failed line ends the thread without on_finished.
LineFailedSilently(j) ==
    /\ pc[j] = "sending" /\ Goto(j, "save_done") /\ Mark(j, "FAILED")
    /\ UNCHANGED <<idx, disk, sched, lock, evs, hist>>

\* The send raised, or its result is not a success.
LineFailed(j) ==
    /\ pc[j] = "sending" /\ Goto(j, "save_end") /\ Mark(j, "FAILED")
    /\ UNCHANGED <<idx, disk, sched, lock, evs, hist>>

\* Variant: entering the pause loop does not mark the job.
HeldUnmarked(j) ==
    /\ pc[j] = "pausing" /\ Goto(j, "save_hold")
    /\ UNCHANGED <<job, disk, sched, lock, evs, hist>>

\* _do_pause: M25 has returned, whatever its result.
MarkHeld(j) ==
    /\ pc[j] = "pausing" /\ Mark(j, "PAUSED") /\ Goto(j, "save_hold")
    /\ UNCHANGED <<idx, disk, sched, lock, evs, hist>>

\* _do_pause: the polling loop ends; M24 only if this is a resume.
LeaveHold(j) ==
    /\ pc[j] = "hold"
    /\ \/ (cancelEv[j] \/ failEv[j]) /\ Goto(j, "top")
       \/ ~pauseEv[j] /\ ~cancelEv[j] /\ ~failEv[j] /\ Goto(j, "unholding")
    /\ UNCHANGED <<job, disk, sched, lock, evs, hist>>

MarkUnheld(j) ==
    /\ pc[j] = "unholding" /\ Mark(j, "PRINTING") /\ Goto(j, "save_unhold")
    /\ UNCHANGED <<idx, disk, sched, lock, evs, hist>>

\* After the last line.  A cancel seen here ends the thread: no on_finished.
AfterLoop(j) ==
    /\ pc[j] = "after"
    /\ \/ failEv[j] /\ Goto(j, "failing")
       \/ ~failEv[j] /\ ~cancelEv[j] /\ Goto(j, "completing")
       \/ ~failEv[j] /\ cancelEv[j] /\ Goto(j, "done")
    /\ UNCHANGED <<job, disk, sched, lock, evs, hist>>

MarkCompleted(j) ==
    /\ pc[j] = "completing" /\ Mark(j, "COMPLETED") /\ Goto(j, "fire_done")
    /\ UNCHANGED <<idx, disk, sched, lock, evs, hist>>

\* _fail_job: a job already terminal ends the thread: no on_finished.
FailJob(j) ==
    /\ pc[j] = "failing"
    /\ Goto(j, IF status[j] \in Terminal THEN "done" ELSE "fail_stop")
    /\ UNCHANGED <<job, disk, sched, lock, evs, hist>>

\* The safe-stop commands have been sent, whatever their results.
MarkFailed(j) ==
    /\ pc[j] = "fail_stop" /\ Mark(j, "FAILED") /\ Goto(j, "save_end")
    /\ UNCHANGED <<idx, disk, sched, lock, evs, hist>>

MarkCancelled(j) ==
    /\ pc[j] = "cancel_stop" /\ Mark(j, "CANCELLED") /\ Goto(j, "save_end")
    /\ UNCHANGED <<idx, disk, sched, lock, evs, hist>>

\* _on_job_finished, under the lock: drop the executor and its Events, free
\* the slot, start the next job.  A completed job is saved only after this,
\* on the other paths before.
Finish(j) ==
    LET next == IF pc[j] = "fire" THEN "done" ELSE "save_done" IN
    /\ pc[j] \in {"fire", "fire_done"} /\ At("idle")
    /\ \/ /\ queue = <<>>
          /\ active' = NoJob /\ Goto(j, next) /\ Clear({j}) /\ UNCHANGED queue
       \/ /\ queue # <<>>
          /\ queue' = Tail(queue) /\ active' = Head(queue)
          /\ pc' = [pc EXCEPT ![j] = next, ![Head(queue)] = "begin"]
          /\ Clear({j, Head(queue)})
    /\ late' = [late EXCEPT ![j] = 0]
    /\ UNCHANGED <<job, disk, created, crashes, lock, lastSent>>

-----------------------------------------------------------------------------
(* The process is killed at any point and started again. *)

\* The jobs on disk that recover() takes up, less those marked FAILED.
Again(gone) == {j \in Jobs \ gone : diskStatus[j] \in Resumable}

\* The orders of S by time of creation (one, as ranks differ).
OldestFirst(S) ==
    {order \in [1..Cardinality(S) -> S] :
        \A m, n \in DOMAIN order : m < n => created[order[m]] < created[order[n]]}

\* recover starts the first job of its list and queues the others.
TakeUp(S) ==
    \/ S = {} /\ active' = NoJob /\ queue' = <<>> /\ pc' = Empty("none")
    \/ /\ S # {}
       /\ \E order \in OldestFirst(S) :
            /\ active' = order[1]
            /\ queue' = [i \in 1..Cardinality(S) - 1 |-> order[i + 1]]
            /\ pc' = [j \in Jobs |-> IF j = order[1] THEN "begin" ELSE "none"]

\* A job without lines is fetched again; when that fails it is marked FAILED.
\* A save that raises here ends the program as it starts: killed once more.
Restart ==
    /\ crashes < MaxCrashes /\ crashes' = crashes + 1
    /\ \E gone \in SUBSET {j \in Jobs : diskStatus[j] \in Resumable /\ NumLines[j] = 0} :
         /\ diskStatus' = [j \in Jobs |-> IF j \in gone THEN "FAILED" ELSE diskStatus[j]]
         /\ status' = [j \in Jobs |-> IF j \in Again(gone) THEN "QUEUED" ELSE diskStatus'[j]]
         /\ TakeUp(Again(gone))
    /\ idx' = diskIdx
    /\ Return
    /\ pauseEv' = Empty(FALSE) /\ cancelEv' = Empty(FALSE) /\ failEv' = Empty(FALSE)
    /\ late' = Empty(0)
    /\ UNCHANGED <<diskIdx, created, lastSent>>

-----------------------------------------------------------------------------
Control ==
    \/ \E j \in Jobs : \/ Create(j) \/ SubmitSave(j) \/ Pause(j) \/ Resume(j)
                       \/ CancelActive(j) \/ Withdraw(j) \/ Fail(j)
    \/ SubmitPlace \/ PauseMark \/ PauseSave \/ ResumeMark \/ ResumeSave
    \/ PauseReturn \/ CancelCheck \/ CancelMark \/ CancelSave \/ WithdrawSave

Stream(j) ==
    \/ Begin(j) \/ MarkStarted(j) \/ Save(j) \/ LoopTop(j) \/ PauseCheck(j)
    \/ SendLine(j) \/ LineSucceeded(j) \/ LineFailed(j) \/ MarkHeld(j)
    \/ LeaveHold(j) \/ MarkUnheld(j) \/ AfterLoop(j) \/ MarkCompleted(j)
    \/ FailJob(j) \/ MarkFailed(j) \/ MarkCancelled(j) \/ Finish(j)

Next == Control \/ (\E j \in Jobs : Stream(j)) \/ Restart

Spec == Init /\ [][Next]_vars

\* A control call that holds the lock goes on to its end.
CtlStep == \/ SubmitPlace \/ PauseMark \/ PauseSave \/ ResumeMark \/ ResumeSave
           \/ PauseReturn \/ CancelCheck \/ CancelMark \/ CancelSave \/ WithdrawSave

\* Every running thread is scheduled, and every engine.send returns.  An
\* executor waiting for the lock gets it: strong fairness, since control
\* calls may keep taking it.
FairSpec == /\ Spec
            /\ WF_vars(CtlStep)
            /\ \A j \in Jobs : WF_vars(Stream(j)) /\ SF_vars(Finish(j))

-----------------------------------------------------------------------------
(* Properties. *)

TypeOK ==
    /\ status \in [Jobs -> Statuses] /\ idx \in [Jobs -> Nat]
    /\ diskStatus \in [Jobs -> Statuses] /\ diskIdx \in [Jobs -> Nat]
    /\ created \in [Jobs -> Nat]
    /\ active \in Jobs \cup {NoJob} /\ queue \in Seq(Jobs)
    /\ ctl \in CtlPoints /\ target \in Jobs \cup {NoJob}
    /\ ctl # "idle" => target \in Jobs
    /\ pc \in [Jobs -> PcPoints]
    /\ pauseEv \in [Jobs -> BOOLEAN]
    /\ cancelEv \in [Jobs -> BOOLEAN]
    /\ failEv \in [Jobs -> BOOLEAN]
    /\ crashes \in 0..MaxCrashes
    /\ lastSent \in [Jobs -> Nat] /\ late \in [Jobs -> Nat]

\* Two executor threads never talk to the printer at the same time, although
\* the thread of a finished job outlives the handoff and on_finished does not
\* look at which job called it.
SingleStreamer ==
    \A i, j \in Jobs : pc[i] \in TalkPoints /\ pc[j] \in TalkPoints => i = j

\* A job is never both running and waiting, nor waiting twice, and a waiting
\* job has a file from which a restart brings it back: killing the process
\* loses no job that submit() has accepted.
WaitingJobsSafe ==
    /\ \A a, b \in DOMAIN queue : queue[a] = queue[b] => a = b
    /\ \A a \in DOMAIN queue : /\ queue[a] # active
                               /\ pc[queue[a]] = "none"
                               /\ diskStatus[queue[a]] \in Resumable

\* The file of a job is at most one line behind the printer: a restart skips
\* no line and repeats at most the one that was under way.  (Needs a store
\* that does not fail.)
ReplayWindow ==
    \A j \in Jobs : /\ diskIdx[j] <= idx[j]
                    /\ idx[j] <= lastSent[j]
                    /\ lastSent[j] <= diskIdx[j] + 1

\* After pause, cancel or fail has set its Event the executor begins at most
\* one more line, wherever in the loop the request finds it.
PromptStop == \A j \in Jobs : late[j] <= 1

\* An executor that waits in the pause loop can always be resumed: the status
\* resume() insists on is the one the job has.
HeldJobResumable ==
    \A j \in Jobs :
        (pc[j] = "hold" /\ pauseEv[j] /\ ctl = "idle") => status[j] = "PAUSED"

\* A job withdrawn from the queue never starts in this run of the process.
WithdrawnNeverStarts ==
    [][\A j \in Jobs :
          (pc[j] = "none" /\ status[j] = "CANCELLED" /\ crashes' = crashes)
              => pc'[j] = "none"]_vars

\* Lines go to the printer in file order: each is the successor of the last
\* one sent or that same line again.
LinesInOrder ==
    [][\A j \in Jobs : lastSent'[j] # lastSent[j] => lastSent'[j] = lastSent[j] + 1]_vars

\* A job that keeps the slot for ever has been cancelled or is paused again
\* and again: failing lines, vision failures, a pause that is resumed, and the
\* lock taken from both sides do not stall the queue.
SlotFreed ==
    \A j \in Jobs :
        <>[](active = j) => ([]<>cancelEv[j] \/ []<>pauseEv[j])

\* job_manager.py:14 "Clean executor handoff when a job finishes": a job
\* that has ended lets the next one start.
EndedJobHandsOver ==
    \A j \in Jobs : (active = j /\ status[j] \in Terminal) ~> active # j

\* job_model.py:7-11, the status lifecycle: nothing leads out of COMPLETED,
\* FAILED or CANCELLED, in particular not in the file a restart reads.
EndedStaysEnded ==
    [][\A j \in Jobs : diskStatus[j] \in Terminal => diskStatus'[j] = diskStatus[j]]_vars

=============================================================================
