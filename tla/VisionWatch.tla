---------------------------- MODULE VisionWatch ----------------------------
(***************************************************************************)
(* The vision layer: VisionController, which the job layer tells of every  *)
(* saved status; VisionMonitor, its sampler and reader; the threads a      *)
(* sampler dispatches, one frame each; the FailureGuard they share.        *)
(*                                                                         *)
(* Threads.  The controller takes no lock and is called by executor        *)
(* threads and by the control call that holds the manager's lock, so its   *)
(* reads of the status and of _current_job, its call of the monitor and    *)
(* its assignment are steps of their own.  The monitor starts and stops    *)
(* under its lock (one step each); a dispatched thread outlives its        *)
(* sampler and reads the monitor's fields without the lock.                *)
(*                                                                         *)
(* The job layer appears as far as the listener sees it: what is marked,   *)
(* in which order with the handover to the next job, and the call that     *)
(* follows each mark.  JobControl has its finer steps.  The number of      *)
(* lines of a job is left open: its loop may end at any time.              *)
(*                                                                         *)
(* Not here: images and their coding, the content of vision events, the    *)
(* sampling interval (timing only), a kill of the process (nothing of this *)
(* layer is kept).  "Variant:" as in JobControl.                           *)
(***************************************************************************)
EXTENDS Integers, Sequences, FiniteSets

CONSTANTS
    NumJobs,        \* jobs that may be submitted, numbered in that order
    NumSamplers,    \* bound on samplers that run or have a thread out
    Threshold,      \* failure_threshold
    MaxCalls        \* bound on pause and cancel calls

ASSUME JobsAssumption      == NumJobs \in Nat
ASSUME ThresholdAssumption == Threshold \in Nat \ {0}
ASSUME SamplersAssumption  == NumSamplers \in Nat \ {0}
ASSUME CallsAssumption     == MaxCalls \in Nat

Terminal == {"COMPLETED", "FAILED", "CANCELLED"}
Ended    == Terminal \cup {"PAUSED"}
Jobs     == 1..NumJobs
NoJob    == 0          \* Python's None
Ctl      == 0          \* the thread of the control call that holds the lock
Notifier == Jobs \cup {Ctl}
Samplers == 1..NumSamplers

\* What the guard tells apart: WEAK is a FAILURE of low confidence; errors
\* and time-outs of the AI service are UNCERTAIN.
Verdicts == {"OK", "UNCERTAIN", "FAIL", "WEAK"}

VARIABLES
    status,     \* Job.status; "NONE" before the job is submitted
    active,     \* JobManager._active
    queue,      \* JobManager._queue
    pc,         \* where the executor thread of each job stands
    pauseEv, cancelEv, failEv,      \* the Events of the job's executor
    calls,      \* pause and cancel calls so far
    call,       \* where a notifier stands in on_job_state_change
    current,    \* VisionController._current_job
    watching,   \* VisionMonitor._active_job, whose _sampler runs; or NoJob
    sampler,    \* the sampler started last
    fpc,        \* where the thread dispatched by each sampler stands
    fjob,       \* the job that thread has read
    failures,   \* FailureGuard._consecutive_failures, up to Threshold
    cooling,    \* less than cooldown_sec since _last_intervention_ts
    \* History: written, never read by a guard.
    recent,     \* the last Threshold FAILs since a reset, an intervention or
                \* another result, WEAK ones aside: by which sampler, of what job
    grounds     \* of a thread that found the threshold crossed: how many of
                \* those were about its own job

jobs    == <<status, active, queue, pc>>
evs     == <<pauseEv, cancelEv, failEv>>
ctrl    == <<call, current>>
camera  == <<watching, sampler>>
threads == <<fpc, fjob, grounds>>
guard   == <<failures, cooling, recent>>
vars    == <<jobs, evs, calls, ctrl, camera, threads, guard>>

Init ==
    /\ status = [j \in Jobs |-> "NONE"] /\ active = NoJob /\ queue = <<>>
    /\ pc = [j \in Jobs |-> "none"]
    /\ pauseEv = [j \in Jobs |-> FALSE]
    /\ cancelEv = [j \in Jobs |-> FALSE]
    /\ failEv = [j \in Jobs |-> FALSE]
    /\ calls = 0
    /\ call = [n \in Notifier |-> "no"] /\ current = NoJob
    /\ watching = NoJob /\ sampler = 1
    /\ fpc = [s \in Samplers |-> "idle"] /\ fjob = [s \in Samplers |-> NoJob]
    /\ failures = 0 /\ cooling = TRUE
    /\ recent = <<>> /\ grounds = [s \in Samplers |-> 0]

-----------------------------------------------------------------------------
(* VisionMonitor and FailureGuard. *)

\* Variant: the guard is not reset for the new job.
NoReset == UNCHANGED guard

\* reset: no failures counted, the last intervention at 0.0 of a clock that may
\* itself, soon after boot, read less than cooldown_sec: see CooldownOver.
Reset == failures' = 0 /\ cooling' = TRUE /\ recent' = <<>>

\* start_monitoring: without effect while a sampler runs.
StartMonitoring(j) ==
    \/ watching # NoJob /\ UNCHANGED <<camera, guard>>
    \/ /\ watching = NoJob /\ watching' = j
       /\ sampler' \in {s \in Samplers : fpc[s] = "idle"}
       /\ \A s \in Samplers : s < sampler' => fpc[s] # "idle"
       /\ Reset

\* stop_monitoring: sampler, reader and job go; the guard stays.
StopMonitoring == watching' = NoJob /\ UNCHANGED sampler

\* Variant: samplers stopped before go on sampling.
TickAfterStop ==
    /\ watching # NoJob
    /\ \E s \in Samplers : fpc[s] = "idle" /\ fpc' = [fpc EXCEPT ![s] = "read"]
    /\ UNCHANGED <<jobs, evs, calls, ctrl, camera, fjob, grounds, guard>>

\* _sample_loop: a frame is dispatched unless there is none yet, or the last
\* one is still at work.
Tick ==
    /\ watching # NoJob /\ fpc[sampler] = "idle"
    /\ fpc' = [fpc EXCEPT ![sampler] = "read"]
    /\ UNCHANGED <<jobs, evs, calls, ctrl, camera, fjob, grounds, guard>>

\* _on_frame: the monitor's job now, and whether it is printing.
ReadJob(s) ==
    /\ fpc[s] = "read"
    /\ IF watching # NoJob /\ status[watching] = "PRINTING"
       THEN fjob' = [fjob EXCEPT ![s] = watching] /\ fpc' = [fpc EXCEPT ![s] = "infer"]
       ELSE fpc' = [fpc EXCEPT ![s] = "idle"] /\ UNCHANGED fjob
    /\ UNCHANGED <<jobs, evs, calls, ctrl, camera, grounds, guard>>

\* _consecutive_failures after the result v; beyond Threshold all are alike.
Counted(v) ==
    CASE v \in {"OK", "UNCERTAIN"} -> 0
      [] v = "WEAK"                -> failures
      [] v = "FAIL" -> IF failures < Threshold THEN failures + 1 ELSE failures

\* The run of failures after the result v of s.
Noted(s, v) ==
    LET all == Append(recent, [by |-> s, of |-> fjob[s]]) IN
    CASE v = "WEAK" -> recent
      [] v = "FAIL" -> IF Len(all) > Threshold THEN Tail(all) ELSE all
      [] OTHER      -> <<>>

\* The failures of the run that are about job j.
About(j) == Cardinality({i \in DOMAIN recent : recent[i].of = j})

\* A dispatched thread ends; the sampler is no longer busy.
Over(s) == /\ fpc' = [fpc EXCEPT ![s] = "idle"]
           /\ fjob' = [fjob EXCEPT ![s] = NoJob]
           /\ grounds' = [grounds EXCEPT ![s] = 0]
Onward(s, p) == fpc' = [fpc EXCEPT ![s] = p] /\ UNCHANGED fjob

\* infer, and evaluate as far as it counts.  The events published for other
\* decisions than PAUSE change nothing, and neither does the interval: their
\* threads end here.
Evaluate(s, v) ==
    /\ fpc[s] = "infer"
    /\ failures' = Counted(v) /\ recent' = Noted(s, v)
    /\ \/ v = "FAIL" /\ Onward(s, "counted") /\ UNCHANGED grounds
       \/ v # "FAIL" /\ Over(s)
    /\ UNCHANGED <<jobs, evs, calls, ctrl, camera, cooling>>

\* The count is read again and compared with the threshold.
Compare(s) ==
    /\ fpc[s] = "counted"
    /\ \/ /\ failures = Threshold /\ Onward(s, "crossed")
          /\ grounds' = [grounds EXCEPT ![s] = About(fjob[s])]
       \/ failures < Threshold /\ Over(s)
    /\ UNCHANGED <<jobs, evs, calls, ctrl, camera, guard>>

CheckCooldown(s) ==
    /\ fpc[s] = "crossed"
    /\ \/ cooling /\ Over(s)
       \/ ~cooling /\ Onward(s, "cleared") /\ UNCHANGED grounds
    /\ UNCHANGED <<jobs, evs, calls, ctrl, camera, guard>>

\* The intervention is noted and the count starts again, whatever has become
\* of both since they were looked at.
Intervene(s) ==
    /\ fpc[s] = "cleared"
    /\ failures' = 0 /\ cooling' = TRUE /\ recent' = <<>>
    /\ Onward(s, "decided") /\ UNCHANGED grounds
    /\ UNCHANGED <<jobs, evs, calls, ctrl, camera>>

\* The decision is lost with the thread: _adapt_interval finds the sampler
\* gone between its test and its use, or publish raises (outbox full).
DecisionLost(s) ==
    /\ fpc[s] = "decided" /\ Over(s)
    /\ UNCHANGED <<jobs, evs, calls, ctrl, camera, guard>>

\* Control calls hold the manager's lock to the end of their listener call.
LockFree == call[Ctl] = "no"

\* The event is published, and JobManager.fail called: True and two Events if the job is active, else False.
FailJob(s) ==
    /\ fpc[s] = "decided" /\ LockFree
    /\ fpc' = [fpc EXCEPT ![s] = "stop"]
    /\ \/ /\ active = fjob[s]
          /\ failEv' = [failEv EXCEPT ![fjob[s]] = TRUE]
          /\ pauseEv' = [pauseEv EXCEPT ![fjob[s]] = FALSE]
       \/ active # fjob[s] /\ UNCHANGED <<failEv, pauseEv>>
    /\ UNCHANGED <<jobs, cancelEv, calls, ctrl, camera, fjob, grounds, guard>>

\* The monitor is stopped, whatever job it watches by now.
StopAfterFail(s) ==
    /\ fpc[s] = "stop" /\ StopMonitoring /\ Over(s)
    /\ UNCHANGED <<jobs, evs, calls, ctrl, guard>>

\* cooldown_sec have passed, since the last intervention or since boot: they
\* may at any time, but nobody notices before the next look at the clock.
CooldownOver ==
    /\ cooling /\ (\E s \in Samplers : fpc[s] = "crossed") /\ cooling' = FALSE
    /\ UNCHANGED <<jobs, evs, calls, ctrl, camera, threads, failures, recent>>

-----------------------------------------------------------------------------
(* VisionController.on_job_state_change, in the thread of notifier n. *)

\* The job the call is about; a control call under the lock has the active one.
Subject(n) == IF n = Ctl THEN active ELSE n

At(n, p)    == call[n] = p
Go(n, p)    == call' = [call EXCEPT ![n] = p]
Tell(n)     == Go(n, "hear")

\* Is the status PRINTING?
Hear(n) ==
    /\ At(n, "hear")
    /\ Go(n, IF status[Subject(n)] = "PRINTING" THEN "print" ELSE "leave")
    /\ UNCHANGED <<jobs, evs, calls, current, camera, threads, guard>>

\* A job the controller does not know as its own becomes it, and is watched.
TakeOn(n) ==
    /\ At(n, "print")
    /\ \/ current = Subject(n) /\ Go(n, "no") /\ UNCHANGED current
       \/ current # Subject(n) /\ current' = Subject(n) /\ Go(n, "start")
    /\ UNCHANGED <<jobs, evs, calls, camera, threads, guard>>

StartCall(n) ==
    /\ At(n, "start") /\ StartMonitoring(Subject(n)) /\ Go(n, "no")
    /\ UNCHANGED <<jobs, evs, calls, current, threads>>

\* The status is read again; only the controller's own job ends the watch.
Leave(n) ==
    /\ At(n, "leave")
    /\ IF status[Subject(n)] \in Ended /\ current = Subject(n)
       THEN Go(n, "stop") ELSE Go(n, "no")
    /\ UNCHANGED <<jobs, evs, calls, current, camera, threads, guard>>

StopCall(n) ==
    /\ At(n, "stop") /\ StopMonitoring /\ Go(n, "clear")
    /\ UNCHANGED <<jobs, evs, calls, current, threads, guard>>

\* Variant: the controller keeps the job it has stopped watching.
KeepCurrent(n) ==
    /\ At(n, "clear") /\ Go(n, "no")
    /\ UNCHANGED <<jobs, evs, calls, current, camera, threads, guard>>

ClearCurrent(n) ==
    /\ At(n, "clear") /\ current' = NoJob /\ Go(n, "no")
    /\ UNCHANGED <<jobs, evs, calls, camera, threads, guard>>

Listen(n) == \/ Hear(n) \/ TakeOn(n) \/ StartCall(n)
             \/ Leave(n) \/ StopCall(n) \/ ClearCurrent(n)

-----------------------------------------------------------------------------
(* The job layer, as far as vision sees it.  A mark, its save and the message *)
(* come before the listener call; an executor goes on when that returns.      *)

Mark(j, st)   == status' = [status EXCEPT ![j] = st]
Goto(j, p)    == pc' = [pc EXCEPT ![j] = p]
Moves(j, p)   == pc[j] = p /\ call[j] = "no"
MarkAndTell(j, st, p) == Mark(j, st) /\ Goto(j, p) /\ Tell(j)

\* submit: started when the slot is free, else queued.
Submit(j) ==
    /\ status[j] = "NONE" /\ (\A k \in Jobs : k < j => status[k] # "NONE")
    /\ LockFree /\ Mark(j, "QUEUED")
    /\ \/ active = NoJob /\ active' = j /\ Goto(j, "begin") /\ UNCHANGED queue
       \/ active # NoJob /\ queue' = Append(queue, j) /\ UNCHANGED <<active, pc>>
    /\ UNCHANGED <<evs, calls, ctrl, camera, threads, guard>>

\* The checks before the start; vision cannot have failed the job yet.
Begin(j) ==
    /\ Moves(j, "begin")
    /\ \/ cancelEv[j] /\ MarkAndTell(j, "CANCELLED", "fire")
       \/ ~cancelEv[j] /\ Goto(j, "starting") /\ UNCHANGED <<status, call>>
    /\ UNCHANGED <<active, queue, evs, calls, current, camera, threads, guard>>

\* The job prints; a cancel since those checks is overwritten.
MarkStarted(j) ==
    /\ Moves(j, "starting") /\ MarkAndTell(j, "PRINTING", "top")
    /\ UNCHANGED <<active, queue, evs, calls, current, camera, threads, guard>>

\* One round of the loop: a line that succeeds or fails, the next pause, or
\* the end of a cancelled job.
Line(j) ==
    /\ Moves(j, "top") /\ ~failEv[j]
    /\ \/ cancelEv[j] /\ MarkAndTell(j, "CANCELLED", "fire")
       \/ ~cancelEv[j] /\ pauseEv[j] /\ MarkAndTell(j, "PAUSED", "hold")
       \/ /\ ~cancelEv[j] /\ ~pauseEv[j]
          /\ \/ Goto(j, "top") /\ Tell(j) /\ UNCHANGED status
             \/ MarkAndTell(j, "FAILED", "fire")
    /\ UNCHANGED <<active, queue, evs, calls, current, camera, threads, guard>>

\* The pause loop is left: for the checks after it, or to print on.
LeaveHold(j) ==
    /\ Moves(j, "hold")
    /\ \/ (cancelEv[j] \/ failEv[j]) /\ Goto(j, "top") /\ UNCHANGED <<status, call>>
       \/ ~pauseEv[j] /\ ~cancelEv[j] /\ ~failEv[j] /\ MarkAndTell(j, "PRINTING", "top")
    /\ UNCHANGED <<active, queue, evs, calls, current, camera, threads, guard>>

\* Variant: the status, a plain string in the code, is misspelt.
LinesOverMisspelt(j) ==
    /\ Moves(j, "top") /\ ~failEv[j]
    /\ \/ cancelEv[j] /\ Goto(j, "done") /\ UNCHANGED status
       \/ ~cancelEv[j] /\ Mark(j, "COMPLETE") /\ Goto(j, "fire_done")
    /\ UNCHANGED <<active, queue, evs, calls, ctrl, camera, threads, guard>>

\* No line is left.  Completed: the handover comes before save and listener.
\* Cancelled since the last check: the thread ends without a word.
LinesOver(j) ==
    /\ Moves(j, "top") /\ ~failEv[j]
    /\ \/ cancelEv[j] /\ Goto(j, "done") /\ UNCHANGED status
       \/ ~cancelEv[j] /\ Mark(j, "COMPLETED") /\ Goto(j, "fire_done")
    /\ UNCHANGED <<active, queue, evs, calls, ctrl, camera, threads, guard>>

\* _fail_job: nothing for a job already ended, else safe stop and FAILED.
FailStop(j) ==
    /\ Moves(j, "top") /\ failEv[j]
    /\ \/ status[j] \in Terminal /\ Goto(j, "done") /\ UNCHANGED <<status, call>>
       \/ status[j] \notin Terminal /\ MarkAndTell(j, "FAILED", "fire")
    /\ UNCHANGED <<active, queue, evs, calls, current, camera, threads, guard>>

\* _on_job_finished drops the executor and its Events; a completed job is saved and told of only afterwards.
Finish(j) ==
    /\ \/ Moves(j, "fire") /\ UNCHANGED call
       \/ Moves(j, "fire_done") /\ Tell(j)
    /\ LockFree
    /\ \/ queue = <<>> /\ active' = NoJob /\ Goto(j, "done") /\ UNCHANGED queue
       \/ /\ queue # <<>> /\ active' = Head(queue) /\ queue' = Tail(queue)
          /\ pc' = [pc EXCEPT ![j] = "done", ![Head(queue)] = "begin"]
    /\ pauseEv' = [pauseEv EXCEPT ![j] = FALSE]
    /\ cancelEv' = [cancelEv EXCEPT ![j] = FALSE]
    /\ failEv' = [failEv EXCEPT ![j] = FALSE]
    /\ UNCHANGED <<status, calls, current, camera, threads, guard>>

\* A control call takes the lock; the listener is told before it is released.
Counts == calls < MaxCalls /\ calls' = calls + 1
Calls(j) == LockFree /\ active = j

\* pause of a printing job, held in the listener call until that returns.
Pause(j) ==
    /\ Calls(j) /\ Counts /\ status[j] = "PRINTING" /\ Mark(j, "PAUSED")
    /\ pauseEv' = [pauseEv EXCEPT ![j] = TRUE]
    /\ Tell(Ctl)
    /\ UNCHANGED <<active, queue, pc, cancelEv, failEv, current, camera, threads, guard>>

\* resume of a paused job.
Resume(j) ==
    /\ Calls(j) /\ status[j] = "PAUSED" /\ Mark(j, "PRINTING")
    /\ pauseEv' = [pauseEv EXCEPT ![j] = FALSE]
    /\ Tell(Ctl)
    /\ UNCHANGED <<active, queue, pc, cancelEv, failEv, calls, current, camera, threads, guard>>

\* cancel of the active job; of a waiting one, vision never hears.
Cancel(j) ==
    /\ Calls(j) /\ Counts
    /\ cancelEv' = [cancelEv EXCEPT ![j] = TRUE]
    /\ pauseEv' = [pauseEv EXCEPT ![j] = FALSE]
    /\ failEv' = [failEv EXCEPT ![j] = FALSE]
    /\ \/ status[j] \in Terminal /\ UNCHANGED <<status, call>>
       \/ status[j] \notin Terminal /\ Mark(j, "CANCELLED") /\ Tell(Ctl)
    /\ UNCHANGED <<active, queue, pc, current, camera, threads, guard>>

-----------------------------------------------------------------------------
Stream(j) == \/ Begin(j) \/ MarkStarted(j) \/ Line(j) \/ LeaveHold(j)
             \/ LinesOver(j) \/ FailStop(j) \/ Finish(j)

Control(j) == Submit(j) \/ Pause(j) \/ Resume(j) \/ Cancel(j)

Dispatched(s) ==
    \/ ReadJob(s) \/ (\E v \in Verdicts : Evaluate(s, v))
    \/ Compare(s) \/ CheckCooldown(s) \/ Intervene(s)
    \/ DecisionLost(s) \/ FailJob(s) \/ StopAfterFail(s)

Next == \/ \E j \in Jobs : Stream(j) \/ Control(j)
        \/ \E n \in Notifier : Listen(n)
        \/ \E s \in Samplers : Dispatched(s)
        \/ Tick \/ CooldownOver

Spec == Init /\ [][Next]_vars

-----------------------------------------------------------------------------
(* Properties. *)

TypeOK ==
    /\ status \in [Jobs -> Ended \cup {"NONE", "QUEUED", "PRINTING"}]
    /\ active \in Jobs \cup {NoJob} /\ queue \in Seq(Jobs)
    /\ pc \in [Jobs -> {"none", "begin", "starting", "top", "hold", "fire",
                        "fire_done", "done"}]
    /\ pauseEv \in [Jobs -> BOOLEAN]
    /\ cancelEv \in [Jobs -> BOOLEAN]
    /\ failEv \in [Jobs -> BOOLEAN]
    /\ calls \in 0..MaxCalls
    /\ call \in [Notifier -> {"no", "hear", "print", "start", "leave", "stop", "clear"}]
    /\ current \in Jobs \cup {NoJob} /\ watching \in Jobs \cup {NoJob}
    /\ sampler \in Samplers
    /\ fpc \in [Samplers -> {"idle", "read", "infer", "counted", "crossed", "cleared",
                             "decided", "stop"}]
    /\ fjob \in [Samplers -> Jobs \cup {NoJob}]
    /\ failures \in 0..Threshold /\ cooling \in BOOLEAN
    /\ recent \in Seq([by : Samplers, of : Jobs]) /\ grounds \in [Samplers -> 0..Threshold]

\* Job j prints, and every notification so far has been dealt with.
Settled(j) == /\ \A n \in Notifier : call[n] = "no"
              /\ pc[j] = "top" /\ status[j] = "PRINTING" /\ ~failEv[j]

\* Watched, or about to be: a controller without a job takes on the next
\* PRINTING it hears, which follows every line.
InView(j) == watching = j \/ current = NoJob

\* The first job of a process does not go unwatched while it prints: pauses,
\* resumes and cancels that cross the executor's own notifications in the
\* unlocked controller, and decisions lost on the way, cost one line at most.
FirstPrintWatched ==
    \A j \in Jobs :
        Settled(j) /\ (\A k \in Jobs \ {j} : pc[k] = "none") => InView(j)

\* Of the failures counted for the job being watched, each earlier sampler
\* (an earlier job, or the time before a pause) has contributed at most one:
\* the frame that was out when it was stopped.
OldSamplersOneVote ==
    \A s \in Samplers \ {sampler} :
        Cardinality({i \in DOMAIN recent : recent[i].by = s}) <= 1

\* The guard has no lock: two threads may find one run of failures, or a
\* reset may empty it before it is used.  For all that, vision fails a job only
\* on Threshold FAILUREs in a row that were about this job, but for at most
\* one for each other sampler.
FailedOnEvidence ==
    [][\A j \in Jobs : failEv'[j] /\ ~failEv[j] =>
          \E s \in Samplers : /\ fpc[s] = "decided" /\ fjob[s] = j
                              /\ grounds[s] >= Threshold - (NumSamplers - 1)]_vars

=============================================================================
