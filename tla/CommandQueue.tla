---------------------------- MODULE CommandQueue ----------------------------
(***************************************************************************)
(* The command engine: CommandEngine.send on the callers' threads, the     *)
(* QueueProcessor worker thread, and stop() on the main thread.  A caller  *)
(* checks the engine state, puts its CommandEntry in the bounded queue and *)
(* waits on the entry's Event, at most COMMAND_RESULT_TIMEOUT_SEC; time is *)
(* abstracted, so the wait may time out whenever the Event is not set.     *)
(* Each command of Cmds is one entry, sent once by a thread of its own;    *)
(* those of Silent go through send_fire_and_forget (the telemetry polls),  *)
(* and nobody waits for them.  send_batch is one schedule of such threads: *)
(* it enqueues in turn and then collects the results in turn.              *)
(*                                                                         *)
(* The communicator below is seen only by how send_command ends: "ok", no  *)
(* answer after its retries, or a lost connection (SerialLink opens it).   *)
(* A drain's get_nowait and the mark that follows it are one step.         *)
(* Operators introduced by "Variant:" change the definition after them the *)
(* way a bug would; they are used only to see the properties fail.         *)
(***************************************************************************)
EXTENDS Naturals, Sequences

CONSTANTS
    Cmds,           \* the command entries callers may submit
    Silent,         \* those of them that nobody waits for
    Capacity,       \* MAX_QUEUE_SIZE
    NoCmd           \* None

ASSUME CmdsAssumption     == NoCmd \notin Cmds
ASSUME SilentAssumption   == Silent \subseteq Cmds
ASSUME CapacityAssumption == Capacity \in Nat \ {0}

VARIABLES
    fifo,           \* QueueProcessor._queue
    state,          \* QueueProcessor._state
    current,        \* QueueProcessor._current_cmd (and the worker's entry)
    shutdownEv,     \* QueueProcessor._shutdown_event
    worker,         \* where the worker thread stands
    stopper,        \* where the thread in stop() stands
    caller,         \* where the caller of each command stands
    status,         \* CommandEntry.status
    doneEv,         \* CommandEntry._done_event
    result          \* CommandResult.status handed to the caller

vars == <<fifo, state, current, shutdownEv, worker, stopper, caller, status, doneEv, result>>

EngineStates  == {"IDLE", "BUSY", "WAITING_FOR_OK", "ERROR", "SHUTDOWN"}
Statuses      == {"PENDING", "SENT", "OK", "FAILED", "REJECTED"}
Settled       == {"OK", "FAILED", "REJECTED"}
WorkerPoints  == {"check", "get", "taken", "sending", "error_pause", "reconnecting",
                  "draining", "finish", "exited"}
StopPoints    == {"running", "signalled", "joining", "draining", "stopped"}
CallerPoints  == {"new", "checked", "waiting", "returned"}

Init ==
    /\ fifo = <<>> /\ state = "IDLE" /\ current = NoCmd
    /\ shutdownEv = FALSE /\ worker = "check" /\ stopper = "running"
    /\ caller = [c \in Cmds |-> "new"] /\ status = [c \in Cmds |-> "PENDING"]
    /\ doneEv = [c \in Cmds |-> FALSE] /\ result = [c \in Cmds |-> "none"]

-----------------------------------------------------------------------------
(* The callers: send, and enqueue inside it. *)

Reply(c, s) == /\ caller' = [caller EXCEPT ![c] = "returned"]
               /\ result' = [result EXCEPT ![c] = s]

\* Variant: a refusal is reported as something else than REJECTED.
RefuseUnnamed(c) == status' = [status EXCEPT ![c] = "TIMEOUT"] /\ Reply(c, "REJECTED")

Refuse(c) == status' = [status EXCEPT ![c] = "REJECTED"] /\ Reply(c, "REJECTED")

\* validate_command refuses the line: there is no entry, the caller is told.
Invalid(c) ==
    /\ caller[c] = "new" /\ Reply(c, "REJECTED")
    /\ UNCHANGED <<fifo, state, current, shutdownEv, worker, stopper, status, doneEv>>

\* enqueue looks at the state first, without the state lock ...
CheckState(c) ==
    /\ caller[c] = "new"
    /\ \/ state = "SHUTDOWN" /\ Refuse(c)
       \/ /\ state # "SHUTDOWN" /\ caller' = [caller EXCEPT ![c] = "checked"]
          /\ UNCHANGED <<status, result>>
    /\ UNCHANGED <<fifo, state, current, shutdownEv, worker, stopper, doneEv>>

\* The entry is in the queue: send waits for it, send_fire_and_forget does not.
Accepted(c) ==
    IF c \in Silent THEN Reply(c, "queued")
    ELSE caller' = [caller EXCEPT ![c] = "waiting"] /\ UNCHANGED result

\* Variant: a new command overtakes those that wait.
EnqueueInFront(c) ==
    /\ caller[c] = "checked" /\ Len(fifo) < Capacity
    /\ fifo' = <<c>> \o fifo /\ Accepted(c)
    /\ UNCHANGED <<state, current, shutdownEv, worker, stopper, status, doneEv>>

\* ... and puts the entry in the queue afterwards.
Enqueue(c) ==
    /\ caller[c] = "checked"
    /\ \/ Len(fifo) >= Capacity /\ Refuse(c) /\ UNCHANGED fifo
       \/ /\ Len(fifo) < Capacity /\ fifo' = Append(fifo, c)
          /\ Accepted(c) /\ UNCHANGED status
    /\ UNCHANGED <<state, current, shutdownEv, worker, stopper, doneEv>>

\* The wait ends by the Event or by its timeout; the result is the entry's
\* status at that moment.
Wake(c)    == caller[c] = "waiting" /\ doneEv[c] /\ Reply(c, status[c])
              /\ UNCHANGED <<fifo, state, current, shutdownEv, worker, stopper, status, doneEv>>
TimeOut(c) == caller[c] = "waiting" /\ ~doneEv[c] /\ Reply(c, status[c])
              /\ UNCHANGED <<fifo, state, current, shutdownEv, worker, stopper, status, doneEv>>

-----------------------------------------------------------------------------
(* The worker thread: _run_loop and _execute_entry. *)

outside == <<shutdownEv, stopper, caller, result>>

\* Variant: the loop looks at the state, which others write too.
LoopCheckState ==
    /\ worker = "check" /\ worker' = IF state = "SHUTDOWN" THEN "exited" ELSE "get"
    /\ UNCHANGED <<fifo, state, current, status, doneEv, outside>>

LoopCheck ==
    /\ worker = "check" /\ worker' = IF shutdownEv THEN "exited" ELSE "get"
    /\ UNCHANGED <<fifo, state, current, status, doneEv, outside>>

\* The queue stays empty for a poll interval: the state is set to IDLE.
PollEmpty ==
    /\ worker = "get" /\ fifo = <<>>
    /\ state' = "IDLE" /\ worker' = "check"
    /\ UNCHANGED <<fifo, current, status, doneEv, outside>>

Take ==
    /\ worker = "get" /\ fifo # <<>>
    /\ current' = Head(fifo) /\ fifo' = Tail(fifo)
    /\ state' = "BUSY" /\ worker' = "taken"
    /\ UNCHANGED <<status, doneEv, outside>>

MarkSent ==
    /\ worker = "taken" /\ worker' = "sending"
    /\ state' = "WAITING_FOR_OK"
    /\ status' = [status EXCEPT ![current] = "SENT"]
    /\ UNCHANGED <<fifo, current, doneEv, outside>>

\* send_command returned, or raised something unexpected: no pause.
SendReturns ==
    /\ worker = "sending" /\ worker' = "finish" /\ state' = "IDLE"
    /\ \E s \in {"OK", "FAILED"} : status' = [status EXCEPT ![current] = s]
    /\ UNCHANGED <<fifo, current, doneEv, outside>>

\* Variant: the error is not caught; finally runs and the thread ends.
SendKillsWorker ==
    /\ worker = "sending" /\ worker' = "exited" /\ current' = NoCmd
    /\ status' = [status EXCEPT ![current] = "FAILED"]
    /\ doneEv' = [doneEv EXCEPT ![current] = TRUE]
    /\ UNCHANGED <<fifo, state, outside>>

\* Variant: the error path forgets to mark the command.
SendRaisesUnmarked ==
    /\ worker = "sending" /\ worker' \in {"error_pause", "reconnecting"}
    /\ state' = "ERROR" /\ UNCHANGED <<fifo, current, status, doneEv, outside>>

\* PrinterUnresponsiveError and SerialConnectionError.
SendRaises ==
    /\ worker = "sending" /\ worker' \in {"error_pause", "reconnecting"}
    /\ state' = "ERROR" /\ status' = [status EXCEPT ![current] = "FAILED"]
    /\ UNCHANGED <<fifo, current, doneEv, outside>>

Reconnect ==
    /\ worker = "reconnecting" /\ worker' \in {"error_pause", "draining"}
    /\ UNCHANGED <<fifo, state, current, status, doneEv, outside>>

\* _drain_queue_on_error: the entries fail, their Events stay unset.
DrainOnError ==
    /\ worker = "draining"
    /\ \/ fifo = <<>> /\ worker' = "error_pause" /\ UNCHANGED <<fifo, status>>
       \/ /\ fifo # <<>> /\ fifo' = Tail(fifo)
          /\ status' = [status EXCEPT ![Head(fifo)] = "FAILED"] /\ UNCHANGED worker
    /\ UNCHANGED <<state, current, doneEv, outside>>

\* The end of error recovery.
Recovered ==
    /\ worker = "error_pause" /\ worker' = "finish" /\ state' = "IDLE"
    /\ UNCHANGED <<fifo, current, status, doneEv, outside>>

\* finally: the caller is woken.
Finish ==
    /\ worker = "finish" /\ worker' = "check" /\ current' = NoCmd
    /\ doneEv' = [doneEv EXCEPT ![current] = TRUE]
    /\ UNCHANGED <<fifo, state, status, outside>>

-----------------------------------------------------------------------------
(* stop(), called once, at the end of main. *)

threads == <<current, worker, caller, doneEv, result>>

Signal   == stopper = "running" /\ stopper' = "signalled" /\ shutdownEv' = TRUE
            /\ UNCHANGED <<fifo, state, status, threads>>
SetState == stopper = "signalled" /\ stopper' = "joining" /\ state' = "SHUTDOWN"
            /\ UNCHANGED <<fifo, shutdownEv, status, threads>>

\* join returns when the worker has ended, or after its own timeout.
Join     == stopper = "joining" /\ stopper' = "draining"
            /\ UNCHANGED <<fifo, state, shutdownEv, status, threads>>

\* Variant: the waiting commands are thrown away as they are.
DrainUnmarked ==
    /\ stopper = "draining" /\ fifo' = <<>> /\ stopper' = "stopped"
    /\ UNCHANGED <<state, shutdownEv, status, threads>>

DrainOnShutdown ==
    /\ stopper = "draining"
    /\ \/ fifo = <<>> /\ stopper' = "stopped" /\ UNCHANGED <<fifo, status>>
       \/ /\ fifo # <<>> /\ fifo' = Tail(fifo)
          /\ status' = [status EXCEPT ![Head(fifo)] = "REJECTED"] /\ UNCHANGED stopper
    /\ UNCHANGED <<state, shutdownEv, threads>>

-----------------------------------------------------------------------------
Call(c) == Invalid(c) \/ CheckState(c) \/ Enqueue(c) \/ Wake(c) \/ TimeOut(c)

\* The telemetry poller: its commands are valid, the answer is only logged.
Poll(c) == CheckState(c) \/ Enqueue(c)

Work    == \/ LoopCheck \/ PollEmpty \/ Take \/ MarkSent \/ SendReturns \/ SendRaises
           \/ Reconnect \/ DrainOnError \/ Recovered \/ Finish
Stop    == Signal \/ SetState \/ Join \/ DrainOnShutdown

Next == (\E c \in Cmds \ Silent : Call(c)) \/ (\E c \in Silent : Poll(c)) \/ Work \/ Stop

Spec == Init /\ [][Next]_vars

\* The worker is scheduled and send_command returns.
FairSpec == Spec /\ WF_vars(Work)

-----------------------------------------------------------------------------
(* Properties. *)

TypeOK ==
    /\ fifo \in Seq(Cmds) /\ state \in EngineStates /\ current \in Cmds \cup {NoCmd}
    /\ shutdownEv \in BOOLEAN /\ worker \in WorkerPoints /\ stopper \in StopPoints
    /\ caller \in [Cmds -> CallerPoints] /\ status \in [Cmds -> Statuses]
    /\ doneEv \in [Cmds -> BOOLEAN] /\ result \in [Cmds -> Statuses \cup {"none", "queued"}]

\* The engine keeps the promise of CommandService: order, one at a time,
\* settled once, refused means not carried out, at most Capacity waiting;
\* also when stop, a drain and the worker take from the queue together.
Service == INSTANCE CommandService WITH
    line <- fifo,
    doing <- IF current # NoCmd /\ status[current] \notin Settled THEN current ELSE NoCmd,
    outcome <- [c \in Cmds |-> IF status[c] \in Settled THEN status[c] ELSE "none"]

ImplementsService == Service!Spec

\* A caller is never woken with an unfinished command: whoever is woken by
\* the Event, rather than by its timeout, finds the command settled.
WokenIsSettled == \A c \in Cmds : doneEv[c] => status[c] \in Settled

\* Command c was put in the queue.
Taken(c) == caller[c] = "waiting" \/ result[c] \in {"queued", "PENDING", "SENT"}

\* An accepted command is not forgotten: until settled it is in the queue or
\* in the worker's hands, also when its caller gave up waiting.
NoneForgotten ==
    \A c \in Cmds : (Taken(c) /\ status[c] \notin Settled)
                        => current = c \/ \E n \in DOMAIN fifo : fifo[n] = c

\* While nobody stops the engine every accepted command is settled, also
\* behind commands that time out and connections that break.
AcceptedGetsSettled ==
    \A c \in Cmds : []~shutdownEv => (Taken(c) ~> status[c] \in Settled)

\* stop() ends the worker, although an idle poll, or the end of a command,
\* writes IDLE over the SHUTDOWN that stop() has just put down and callers go
\* on filling the queue: the thread comes to an end and stays there.
StopEndsWorker == shutdownEv ~> [](worker = "exited")

=============================================================================
