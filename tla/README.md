# Reactive Edge Hub: TLA+ models, checks and proofs

The hub runs on a Raspberry Pi between a cloud broker and a 3D printer on a
serial port. It takes print jobs over MQTT, streams their G-code line by line,
watches the print with a camera, and reports state. It is one Python process
with many threads; almost everything hard about it is in the order in which
those threads meet. These modules model that, starting with the layer that
decides what the printer does.

Source files are named as in `PROJECT.json`: the repository's `src/jobs/x.py`
is `src/src/jobs/x.py` there, its `main.py` is `src/main.py`.

## 1. Inventory

| Component | State it keeps | Operations | Hard behaviours |
| --- | --- | --- | --- |
| Job layer: `jobs/job_manager.py`, `job_executor.py`, `job_model.py`, `job_store.py` | the queue, the active job and its executor (under one lock); `Job.status`, `current_line_index` (no lock); three Events per executor; one JSON file per job | submit, pause, resume, cancel, fail, recover; the executor's loop; `on_finished` | control calls against the loop, check-then-mark, handoff, kill and restart, failing saves |
| Command engine: `engine/command_engine.py`, `queue_processor.py`, `command.py` | bounded queue, engine state, current entry, per entry a status and an Event | send, send_batch, fire-and-forget, start, stop; the worker's loop, two drains | stop against worker against callers, time-outs, full queue, errors that drain |
| Serial link: `hardware/printer_communicator.py`, `serial_connection.py`, `serial_router.py` | port and connected flag, ack queue, telemetry queue | send_command with retries, read loop with fan-out, reconnect, flush | late and duplicate `ok`, loss at any moment, full ack queue |
| Vision: `vision/*` | controller's current job, monitor's active job, sampler and reader threads, guard's counter and cooldown | job-state listener, start/stop monitoring, on_frame, evaluate | dispatch threads that outlive their job, listener calls from several threads |
| MQTT client: `cloud/mqtt_client.py` | connected Event, outbox, subscriptions | publish, connect loop, drain loop, paho's callbacks, stop | reordering, full outbox, a connection lost at any moment |
| MQTT bridge and intake: `cloud/mqtt_bridge.py`, `command_router.py`, `message_validator.py`, `mqtt_publisher.py`, `core/models.py` | heartbeat, topics; a thread per start-job and per command | five message kinds, their checks and answers, boot order, handshake | at-least-once delivery, messages during recover, answers that raise |
| Telemetry: `telemetry/*` | printer-state snapshot, last line time, suppress window | line processing, idle time-out, listeners | three writers of the status, copies reported late |
| G-code intake: `jobs/gcode_pipeline.py`, `engine/validator.py` | none | filter lines, accept commands | the two filters disagree |
| Process: `main.py`, `config/settings.py` | wiring | start and stop order | shutdown order |

How they interact:

    MQTT client --on_message--> bridge --submit/pause/resume/cancel--> JobManager
    vision dispatch thread ----------------fail----------------------> JobManager
    JobManager --starts--> JobExecutor thread --send--> CommandEngine
    CommandEngine queue --> QueueProcessor thread --send_command--> serial port
    serial port --> SerialRouter thread --> ack queue --> QueueProcessor
                                       \--> telemetry queue --> TelemetryEngine --> StateManager
    JobExecutor --save--> JobStore;  --publish--> MQTT;  --listener--> VisionController

Locks: JobManager's lock is held through a whole control call, including its
saves, its publishes and the vision listener, and is taken by the executor only
in `_on_job_finished`. The vision monitor's lock is taken under it, never the
other way round. Everything else is Events and queues.

What makes each component correct:

- Job layer: one streamer at a time; no accepted job lost; lines in file order,
  none skipped; a request obeyed within a line; a held job resumable; a job
  cancelled while waiting never starts; the slot is handed on; ended jobs stay ended.
- Command engine: one command at a time in order; each accepted command settled
  once, a refused one never carried out; no caller woken early; nothing accepted after stop.
- Serial link: one outstanding line; an `ok` belongs to its command; a lost
  connection is noticed; every send ends.
- Vision: only the job that is printing is failed, after enough frames of its
  own; a printing job is watched; no monitor survives its job.
- MQTT client: messages leave in the order published, except those dropped by a full outbox.
- Commands from the cloud: one end is answered, it is true, and it comes.
- Intake: a job is printed once per order, through restarts; what was accepted
  survives a kill, what was cancelled does not come back.
- Telemetry: the published status follows the printer; no late copy stays.
- G-code: what the pipeline keeps, the validator accepts.

## 2. Modules

| Module | Role |
| --- | --- |
| `JobControl` | the job layer: its actions, its properties, variants of definitions for the mutants |
| `MCJobControl` | jobs and their file lengths |
| `JobControlProofs` | theorems about `JobControl`: types, slot, queue, lines |
| `JobRequestsProofs` | more of them: what a pause, cancel, fail or withdrawal does to its job |
| `CommandService` | abstract: what the engine promises its callers |
| `CommandQueue` | the engine's threads; implements `CommandService` |
| `MCCommandQueue` | three commands |
| `CommandQueueProofs` | theorems about `CommandQueue`, among them that it implements `CommandService` |
| `SerialLink` | send_command, router, reconnect, and the printer as environment |
| `MCSerialLink`, `SerialLinkProofs` | instances and theorems of `SerialLink` |
| `VisionWatch` | controller, monitor, samplers' threads and guard, under the job layer's notifications |
| `MCVisionWatch`, `VisionWatchProofs` | its instance, theorems about it |
| `Uplink` | abstract: what `MQTTClient.publish` promises its callers |
| `MqttClient` | publishers, outbox, drain thread, connect loop, callbacks |
| `CommandRouter` | commands from the cloud and their answers, on top of `MqttClient`; implements `Uplink` |
| `MCCommandRouter`, `CommandRouterProofs` | its instance, theorems about it and the client below, among them that they implement `Uplink` |
| `PrinterStatus` | the printer's status: who writes it, who reports it |
| `MCPrinterStatus`, `PrinterStatusProofs` | its instance, theorems about it |
| `GcodeFilter` | operators: the pipeline's and the validator's reading of a line |
| `JobIntake` | start-job messages, files, recover, start, stop and kill of the process; uses `GcodeFilter` |
| `MCJobIntake`, `JobIntakeProofs` | its instance, theorems about it |

Operators introduced by a comment "Variant:" are not part of a specification.
Each is a plausible bug in the definition that follows it; with that definition
replaced, the run of the property finds it violated.

### JobControl

One control call at a time holds the manager's lock: `ctl` is where it stands,
`target` the job it is about. Each executor thread has a program counter
`pc[j]`. Every read of an Event, every mark of the status and every save is a
step of its own wherever the other side can come in between; what happens under
the lock and touches only the queue is one step. `status`/`idx` are the `Job`
object, `diskStatus`/`diskIdx` its file. `Restart` is a kill at any point and
`recover()`. `created` ranks jobs by `created_at`. Two history variables are
never read by a guard: `lastSent` (the last line handed to the engine) and
`late` (lines begun since a request).

| Actions | Code |
| --- | --- |
| `Create`, `SubmitSave`, `SubmitPlace` | `JobManager.submit` |
| `Pause`, `PauseMark`, `PauseSave`, `PauseReturn`; `Resume`, `ResumeMark`, `ResumeSave` | `JobManager.pause`/`resume` with `JobExecutor.pause`/`resume` |
| `CancelActive`, `CancelCheck`, `CancelMark`, `CancelSave`; `Withdraw`, `WithdrawSave` | `JobManager.cancel`, its two branches |
| `Fail` | `JobManager.fail` with `JobExecutor.fail` |
| `Begin` ... `MarkCancelled` | `_stream_loop`, `_do_pause`, `_fail_job`, `_safe_stop`, one action per program point |
| `Save` | `_persist_and_publish` |
| `Finish` | `_fire_finished` and `_on_job_finished` |
| `Restart` | kill, then `recover` |

The line sent is abstracted to its number; M25, M24 and the safe-stop sequence
are the time a thread spends inside `engine.send` (`TalkPoints`).

### CommandQueue and CommandService

Each command is one entry with a caller of its own; a `send_batch` is the same
calls made in a row. The commands of `Silent` go through
`send_fire_and_forget`, as the telemetry poller's do: `Poll` is such a call, and
nobody waits for it. `Invalid` is the validator's refusal, before there is an
entry. The worker's program counter follows `_run_loop` and `_execute_entry`,
`stopper` follows `stop()`. `send_command` appears by how it ends. The
refinement maps the queue to the abstract line, the worker's unsettled entry to
the command being carried out, settled statuses to outcomes.

### SerialLink

Commands are numbers in the order the processor takes them. An `ok` carries, in
the model only, the command it answers; the code sees the word alone. The
printer executes lines in order, answers each once, reports on its own, and may
or may not reset when the port opens. `surplus` counts the lines the printer may
have got from attempts that gave up, since its last reset.

`reader` is where the router's thread stands: in `readline`, waiting for a port,
or gone. `Disconnect`, a part of the command that meets the lost connection, is
what may end it: pyserial, closed by another thread, lets a read that has just
been woken fail with a TypeError. That takes a write which fails while the read
goes on (a write time-out is two seconds, a read lasts five), so the loss was not
noticed by the router itself. All properties of the module hold with the router
gone; what is then lost is every answer.

### VisionWatch

The job layer is cut down to what its listener sees: marks, the listener call
after each, and the handover, which for a completed job comes before the call.
Its checks and marks are single steps here; JobControl takes them apart. How many
lines a job has is left open. `call[n]` is where notifier `n` (an executor, or
the control call that holds the lock) stands in `on_job_state_change`; `current`
is the controller's job, `watching` the monitor's, `sampler` the sampler last
started. A thread dispatched by sampler `s` stands at `fpc[s]` with the job
`fjob[s]` it has read; samplers are numbered as slots, and a slot is free again
when its thread has ended. `recent` is history: the samplers and the jobs of the
failures in a row so far; `grounds[s]` is how many of them were about its own job
when the thread of `s` found the threshold crossed.

The guard takes no lock, and two dispatched threads, or one and the `reset()` of a
new watch, may be in it at once. So the count, its comparison, the look at the
cooldown and the intervention are four steps (`Evaluate`, `Compare`,
`CheckCooldown`, `Intervene`). Two threads may then intervene on one run of
failures, and one may do so on a count that `reset()` has just emptied: neither is
denied by a property. What holds all the same is `FailedOnEvidence`: the job that
is failed was itself seen to fail.

| Actions | Code |
| --- | --- |
| `Hear`, `TakeOn`, `StartCall`, `Leave`, `StopCall`, `ClearCurrent` | `VisionController.on_job_state_change` |
| `StartMonitoring`, `StopMonitoring` | `VisionMonitor.start_monitoring`, `stop_monitoring` |
| `Tick` | the sampler's loop |
| `ReadJob`, `DecisionLost`, `FailJob`, `StopAfterFail` | `_on_frame` in a dispatched thread |
| `Evaluate`, `Compare`, `CheckCooldown`, `Intervene`; `Reset` | `AIClient.infer` and `FailureGuard.evaluate`; `FailureGuard.reset` |
| `Submit` ... `Finish`, `Pause`, `Resume`, `Cancel` | the job layer |

What it shows. The first print of a process is watched, but for one line now
and then, whatever crosses in the controller. From the first handover on that is
no longer so: when COMPLETED is told after the next job's PRINTING, the monitor
keeps the finished job, whose frames are all skipped, and the next job prints
unwatched until it pauses or ends.

### MqttClient, CommandRouter and Uplink

`at[p]` is where publisher `p` stands in `publish` with the message `arg[p]`; a
step is one operation on the Event, the outbox or paho. `drain` and `held` are
the drain thread and the message it has taken, `dial` the connect loop.
`CommandRouter` extends `MqttClient`: a command's thread (`stage`) is a
publisher, and one more publisher stands for the job layer. The engine below is
`CommandService`: it answers in its own time.

| Actions | Code |
| --- | --- |
| `HandleCommand`, `ParseCommand` and its parts | `CommandRouter.handle_command`, `MessageValidator.parse_command` |
| `Announce`, `Send`, `Finish` | `_execute_command`: the two answers before `engine.send`, the one after, the except clause |
| `ReportJob`, `EndReports` | `_persist_and_publish` as far as the outbox sees it |
| the steps of `publish`, of `_drain_loop` and `_connect_loop`, `OnConnect`, `OnDisconnect` | `MQTTClient`; the start and the stop of `MQTTBridge` |

The refinement maps the message in the drain thread's hand and the outbox to the
backlog of `Uplink`: every message goes straight through, waits its turn, or is
lost, and then it was one of the oldest two or its caller was told.

### PrinterStatus

Three threads hold a copy of the snapshot each: telemetry, paho's thread in the
pause and cancel handlers, the heartbeat. `StateManager.update` writes and copies
in one step and calls the listener in a later one. A line is the set of what the
parsers find in it; `StatusCalledFor` is the order of the tests of
`_process_line`. `EndLine` drops the updates, as the code does.
`IdleClaimRecent` and `OfflineOnceMore` speak of the past through `tookSlot` and
`lateOffline`, which no guard reads.

### GcodeFilter and JobIntake

A line is its first character, what follows the number, its length and its
comment: what the two filters tell apart. `Refused(file)` are the lines the
pipeline keeps and the validator does not take.

A `Job` object is a ticket; the tickets of one id share its file. `HandleStartJob`
is the handler, `Load` and `Submit` the two halves of the thread it starts.
`Pause`, `Resume` and `Cancel` are the control calls, the last with both its
branches: `CallOff` for the active ticket, `Withdraw` for a waiting one. The
executor is JobControl's without its lines and with its races: it may wait in a
pause (`Hold`), finish over a cancel (`SendLines`), write over one (`Undo`), or be
gone without `on_finished` (`LeaveSlot`), as the run `job_handover` shows it.
`RecoverRead`, `RecoverLock`, `RecoverPlace` and `RecoverEnd` are `recover()`:
messages come in between the first two. `Exit` is the end of main or a kill at
any moment and leaves only the files. `twice` counts the jobs `recover()` placed
beside a ticket of the same id, `withdrawn` the jobs a cancel took out of the
queue for good: the properties name the cases in which the code does repeat a
print or let a cancelled job run.

## 3. Runs

| Run | Instance | Shows |
| --- | --- | --- |
| `job_control` | two jobs, two and one lines, one restart | the eight safety properties of the job layer |
| `job_live` | one job of two lines, saves may fail, one restart, fair threads | the slot is freed unless the job is cancelled or kept in pauses |
| `job_handover` | violation | a cancel that meets a failure reported by vision, or falls after the last line: no `on_finished`, the slot stays taken |
| `job_ended` | violation | a CANCELLED file becomes PRINTING again |
| `command_queue` | three commands, one silent, capacity two | the refinement, no early wake, nothing forgotten, everything settled, and `stop()` ends the worker |
| `serial_link` | four commands, two attempts, ack queue of two, two losses, one report | the bounds on outstanding and premature commands, loss noticed, every command ends |
| `serial_ack` | violation | a late `ok` acknowledges the next command |
| `vision_watch` | two jobs, one pause or cancel, any resumes, two samplers, threshold three | the first print is watched, a stopped sampler has one vote at most, a job is failed only on failures of its own |
| `cloud_link` | one command, two job reports, outbox of two, one lost connection, one refused attempt, a stop | `publish` implements `Uplink`; order is lost only where the connection comes up in between; the answers to a command are true, single, and come |
| `printer_status` | two jobs, two pause or cancel messages, one outage, lines of two findings | no running job is called idle, at most one late OFFLINE, the last report is the status |
| `status_stuck` | violation | a temperature line leaves the status UNKNOWN |
| `job_intake` | two ids, three tickets, two deliveries, two starts, one cancel, any pauses and resumes, three kinds of file | prints per delivery, cancelled jobs stay away, accepted jobs are on disk, COMPLETED means no refused line, the jobs run out unless a pause or a kept slot is in the way |

Why the bounds are enough. Two jobs give every interaction the job layer has:
one running, one waiting, a handoff from one thread to the other; a third would
only lengthen the queue, whose order and distinctness are proved. Two lines let
a request fall before, between and after lines. Control calls are not bounded.
Failing saves and files without lines or with G-code gone at the restart are
covered for two jobs and more by the theorems, which assume nothing of them. One restart
reaches every point at which a kill can fall and everything that follows; the
theorems cover any number. Three commands for a queue of two give a full queue
and a command that waits behind another, one of them with nobody waiting. In SerialLink four commands let two
surplus lines lag behind two acknowledged ones; an ack queue of two overflows.
In VisionWatch one call is a pause, which resumes without number may follow, or a
cancel; two samplers are one that is stopped with a frame still out and the one
after it; a third (a watch begun while two old frames are out) is cut off by
`NumSamplers`. A threshold of three leaves, after the one vote of the old sampler,
two that `FailedOnEvidence` asks of the job itself. The theorems cover any number
of each.

In `cloud_link` the command's four answers and the two reports overflow an outbox
of two while the connection is away, and two publishers are enough to race for
the freed place; a second loss would start the same drain again. In
`printer_status` two jobs are the one that is cancelled and the one that takes
the slot between the handler's two reads; two messages are a pause before it or
a second cancel. In `job_intake` two deliveries are one order twice, or two
orders; the third ticket is the one `recover()` makes; two starts are one
restart, and the theorems cover any number; one cancel meets the active ticket at
each of its points, or takes out a waiting one.

Deadlock is not checked: every one of these systems comes to rest when its jobs
or commands are done.

## 4. Fairness

- `JobControl!FairSpec`: a control call that holds the lock goes on; executor
  threads are scheduled and `engine.send` returns (its wait has a time-out).
  `Finish` gets strong fairness: a Python lock that is released again and again
  is eventually granted to a waiting thread, while weak fairness would let
  control calls starve it. Nothing is assumed of the callers: nobody has to
  resume or cancel.
- `CommandQueue!FairSpec`: the worker is scheduled and `send_command` returns,
  which `EachEnds` of SerialLink shows. Nothing is assumed of callers or `stop()`.
- `SerialLink!FairSpec`: the processor's thread is scheduled and a deadline
  passes. Nothing is assumed of printer, port or router.
- `CommandRouter!FairSpec`: every thread goes on, paho dials, connects and calls
  back. Nothing says that the network holds or that commands come:
  `AnsweredUnlessFull` has the lasting connection as its premise.
- `PrinterStatus!FairSpec`: the threads go on, the heartbeat beats while the
  client is connected. Nothing is assumed of lines, messages or the jobs' ends;
  the telemetry thread may die.
- `JobIntake!FairSpec`: recover, the submitting threads and the executors go on.
  Main need not stop, nor start again; nobody has to resume a paused job, and
  vision does not have to fail a held one. `JobsRunOut` therefore ends either with
  no job left or with the slot held: by a pause, or by a ticket whose executor has
  left without `on_finished`.

## 5. Theorems

In `JobControlProofs`, for any set of jobs, any lengths, any number of restarts:

- `TypeCorrect`: `TypeOK`. One lemma per group of actions.
- `OneStreamer`: `SingleStreamer`. It is not inductive: `SlotOwned` says that
  every thread from which `on_finished` is still to come is the thread of the
  active job. A thread joins that set only with the slot free or just given up
  by another that leaves it, and leaves the set by giving the slot up.
- `QueueInvariant`, `WaitingJobsStaySafe`: `WaitingJobsSafe`. `QueueInv` adds
  that the job of a submit in progress is saved, new and nowhere else, and that
  no thread can mark or save a waiting job; it needs `SlotOwned`.
- `NoLineSkipped`: `ReplayWindow`, under the assumption that saves do not fail.
  `ReplayInv` follows file, memory and printer through the three steps of a
  line, and says that outside them the three agree.
- `FileOrder`: `LinesInOrder`, from the same invariant.

The assumption on the store is needed: with a save that failed, the file may be
many lines behind.

In `JobRequestsProofs`, of the same specification and with no assumption on the
store:

- `PromptTheorem`: `PromptStop`. What a thread has read of the Events since the top
  of its loop may be stale; `Prompt` says that a request it can still miss found no
  line begun since it was made, at either of the two checks.
- `HeldTheorem`: `HeldJobResumable`. A pause marks the job after it has set the
  Event, and so does the executor when it sees the Event. `Held`: who waits with the
  Event set has the mark, or is about to get it from the call that holds the lock;
  and a call that will mark the job otherwise has cleared the Event. `Known` (a job
  on disk, in the queue or in the slot was created) keeps `Create` out of it.
- `WithdrawnTheorem`: `WithdrawnNeverStarts`. `Unmarked`: whatever waits is QUEUED,
  since every mark but the withdrawal's own is of the active job, until its call
  returns the lock; so the handoff never takes a CANCELLED job.

In `CommandQueueProofs`, for any commands, any of them silent, any capacity:

- `QueueTheorem`, `WokenTheorem`, `NoneForgottenTheorem`. `QueueInv` adds to the
  two properties that an entry is in one place (`OnePlace`): the queue has no
  entry twice, none the worker holds and none whose Event is set; and that the
  worker, once it has decided, holds a settled command. Without that `Finish`
  could wake a caller early, and `Take` could drop the only trace of a command.
- `TypeTheorem`: `TypeOK`, from `QueueInv`.
- `RefinementTheorem`: `ImplementsService`. `Untouched`
  adds what the mapping needs: an entry in the queue is still PENDING, the one the
  worker holds is PENDING when taken and SENT when sent. So `Take` is `BeginNext`,
  the end of `send_command` is `End`, a drained entry is `DropNext`; `Finish` comes
  after the outcome and changes nothing the service knows of.

In `CommandRouterProofs`, for any number of commands and reports, an outbox of any
size, any number of lost and refused connections:

- `RouterTheorem`, `TypeTheorem`: `RouterInv` is `TypeOK` and, per command, which
  message its thread is at in each stage (`Calls`).
- `UplinkTheorem`: `ImplementsUplink`. `UplinkInv` follows a message from its call
  to where it ends. A publisher numbers upwards, so the message it is at is new
  while it is busy (`Numbered`); a message is given, lost or waiting, one of the
  three (`Apart`); the outbox is rising per publisher and the one in the drain
  thread's hand is older than all of its publisher (`Rising`, `HeldFirst`). So a put
  is a message of `Uplink` that starts to wait, the drain thread gives the oldest,
  and the drop that makes room drops the oldest, or the second while one is held.
- `AnswersTheorem`: `AnswersTrue`. `Truthful`: what is placed anywhere says what
  the engine said, and the except clause is reached through a lost answer.
- `OrderTheorem`: `OrderedUnlessCrossed`. `Uncrossed` is the reason: a publisher in
  whose midst the connection did not come up has nothing waiting when it publishes
  directly, and whatever waits of it is newer than all that paho got.

In `PrinterStatusProofs`, for any number of jobs, messages and outages:

- `IdleClaimTheorem`: between the handler's reads and its claim the slot only
  ever goes to jobs that `tookSlot` names, because it was empty at the first.
- `OfflineTheorem`: the status never returns to UNKNOWN, and a thread other than
  the heartbeat only reports a copy it has taken after its own update; so the one
  UNKNOWN copy that can be out is the heartbeat's, and it is out once.
- `TypeTheorem`: `TypeOK`, with a lemma that `StatusCalledFor` gives a status.

In `JobIntakeProofs`, for any ids, tickets, messages, cancels and starts:

- `CompletedTheorem`: `SentAll` follows a ticket from its last line to its file.
- `PlacedTheorem`: the file of a running ticket is resumable unless another
  ticket that has been through submit or recover wrote it (`Kept`); the same holds
  of the files recover has read and not yet placed (`FoundKept`), or a job that
  ended in between would come back without a file.

On top of that invariant (`IntakeTheorem`):

- `PrintedTheorem`: a delivery, or an early `recover()`, grants one print. `Granted`
  counts what the grants have become: prints done, tickets on their way, and files
  a dead process left without a ticket. `Exit` turns tickets into files, and
  `Owned` is what makes that no more than one for each: a resumable file has a
  running ticket that will write its end, or no ticket that was placed at all.
- `AwayTheorem`: a withdrawn job has no ticket that waits or runs, is not among the
  files found, and its own file is not resumable (`AwayInv`).
- `TypeTheorem`: `TypeOK`. That the queue has no ticket twice and not the active one
  needs `Lined`: who waits in the queue is QUEUED, who is active runs, ends or has
  left the slot taken, and a ticket enters both from nowhere else. `Lined` is proved
  with the invariant of the files, which needs it: a cancel writes the file of the
  active ticket.

In `VisionWatchProofs`, for any number of jobs, samplers and calls, any threshold:

- `OneVoteTheorem`: a replaced sampler's last result is in the history or in a
  thread on the way to it, not both (`OneVote`); only the current sampler
  dispatches, and a new watch begins with an empty history.
- `GuardTheorem`: the history is at least as long as the count (`Backed`), under
  every interleaving in the guard.
- `EvidenceTheorem`: `FailedOnEvidence`, from `EvidenceInv`. A run that crosses the
  threshold has at most one failure of each sampler but the last (`OneVote`). While
  vision sees to the active job, the last sampler has been that job's from its start
  (`Own`), so the rest of the run is about the job; what the thread found when it
  compared stays with it (`Grounded`), whatever another thread or `reset()` does
  to the count before it intervenes. And `JobManager.fail` obeys only for the active
  job, which a thread that comes from an earlier job no longer has: a job that was
  not started is unknown to vision (`Unknown`), one that has ended is not started
  again (`InLine`), and a monitor is only started for the active job (`Called`).
- `TypeTheorem`: `TypeOK`.
- `FirstPrintTheorem`: `FirstPrintWatched`. `FirstInv` speaks of the one job that has
  been started so far. Nobody in vision knows another (`Engaged`), nobody knows of it
  before it prints (`Unheard`), and if the controller has taken it on it is watched,
  or a notifier is about to start the monitor or to clear the controller, or the job
  is to end without another line (`Watched`). The last case is needed for a thread
  that has failed the job and stops the monitor without telling the controller.

In `SerialLinkProofs`, for any number of commands, attempts, losses and reports, and
an ack queue of any size (the lines of a sequence are counted with the library's
theorems on cardinalities):

- `LinkTheorem`: `LinkInv`. `Accounted` holds the balance: a line in the printer or
  its answer stems from an attempt that gave up or from the one that waits. During a
  reconnect old answers may fill the ack queue, so there the queue is left out of
  the balance; the flush brings it back in. `Failed` ties the count of lost commands
  to where the processor stands, `Newest` says that the line written last is that of
  the command under way.
- `TypeTheorem`: `TypeOK`, with the bounds of ack queue and attempts (`Bounded`).
- `OutstandingTheorem`, `LossTheorem`, `PrematureTheorem`: `OutstandingBound`,
  `LossNoticed`, `PrematureBound`. The last takes from `Newest` that one line in the
  printer, while an attempt waits, belongs to a command without a result.

So every invariant, action property and refinement of a passing run is also a
theorem. Only model-checked:

- the liveness properties, as fairness is outside the reach of the prover:
  `SlotFreed`, `AcceptedGetsSettled`, `StopEndsWorker`, `EachEnds`,
  `AnsweredUnlessFull`, `SettledReport`, `JobsRunOut`;
- how many messages JobIntake's instance lets come: the bound is on a sum over the
  ids, and to reason about a sum is induction over data. It is a bound of the model
  and no property speaks of it.

Nothing recursive is used.

## 6. Not modelled, and approximations

- The content of the messages that follow each save; that they may pass each
  other on the way is in `cloud_link`. The listener calls are in VisionWatch,
  which checks and marks in one step what JobControl takes apart.
- `resume-job` in PrinterStatus: its handler calls `resume` and leaves the status
  PAUSED as it is, so nothing there would change. The handshake is one message.
- Job ids whose letters, digits, `-` and `_` are the same share a file; the ids of
  JobIntake differ in them.
- `docs/architecture.md` names a stop-job topic where `mqtt_topics.py` has
  cancel-job; the models follow the code.
- Vision: images have no identity (a frozen stream looks like a live one), the
  sampling interval is only timing, the cooldown after a reset is nondeterministic,
  and the shutdown of the monitor ends the process.
- In the guard three things are one step. `self._consecutive_failures += 1` is: the
  README of the repository asks for Python 3.10 or newer, whose interpreter
  switches threads only at calls and at backward jumps; a build without the global
  lock is not covered. The two assignments of an intervention, and the two of
  `reset()`, are: nobody reads one of the two values between them except to compare
  it, and what the cooldown says after a reset is open in the model anyway.
  `start_monitoring` is one step although the job is set before the reset: a thread
  that reads the new job in between has a request to the AI service before it gets
  to the guard, and nothing in the method waits.
- JobIntake: what pause and resume write over a job whose cancel has been undone;
  a fail of a job with no lines; a store that fails. JobControl has all three.
- Atomic steps that are not one statement: a drain's get and mark, the router's
  read and put, the two Events `cancel` clears after it has set its own. For
  each, the order in the code makes the intermediate states harmless to the
  properties, or a delay of seconds lies in between.
- A save that raises inside `recover()` ends the start of the program, which is
  the same as being killed once more.
- A read that `disconnect()` cuts short is over before the port is open again:
  the reconnect sleeps as long as a read can last.
- Camera, image coding, HTTP, TLS, logging, port discovery, the simulator.

Where code and text differ, without a run of its own:

- `JobManager.pause` (`job_manager.py:113`: "Pause the active job. Returns True if
  successful.") answers True for an active job that is still QUEUED and is not
  paused. JobControl has the step.
- `QueueProcessor.stop` (`queue_processor.py:100`: "No new commands are accepted
  after this call."): the idle worker's last poll writes IDLE over SHUTDOWN, and
  `enqueue` accepts. CommandQueue has the steps; `StopEndsWorker` shows the worker
  ends nevertheless.
- `CommandEngine.send` (`command_engine.py:94-95`: "Blocks the calling thread until
  the command reaches a terminal state (OK, FAILED, or REJECTED)."): the outcome of
  its wait is not looked at, and the result may say PENDING or SENT.
- `serial_connection.py:18-19`: "SerialRouter registers itself here so it can
  flush its queues and restart its read loop after a reconnect event." The hook is
  `reset_queues`, which starts nothing; a router that `Disconnect` has ended stays
  ended. SerialLink has the steps.
- `failure_guard.py:7` ("Also enforces a cooldown period after each intervention") and
  `:51` ("seconds to wait before allowing another intervention"): two threads that
  both pass `:128` before either writes `:140` intervene one after the other, on one
  run of failures. VisionWatch has the steps; the second `fail()` finds its job
  failed already, or not active.
- `docs/architecture.md:196`: "When a job enters `PRINTING`, `VisionController`
  starts `VisionMonitor`." After a handover it may not; see VisionWatch above.

## 7. Plan

1. Composition: a job's line through engine and link, to relate `lastSent` to
   what the printer executed.
2. `VisionWatch`: images with an identity, so that a frozen stream shows;
   liveness under a camera and a service that deliver.
3. Proofs: what the liveness properties rest on as safety (that a thread which
   waits has a thread that will wake it); an abstract specification of the slot and
   its handover that JobControl implements; the composition of 1.
4. The order of main's stops.
