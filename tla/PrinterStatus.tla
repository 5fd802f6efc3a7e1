--------------------------- MODULE PrinterStatus ---------------------------
(***************************************************************************)
(* The printer's status and its way to the cloud: TelemetryEngine with the *)
(* line parsers, StateManager, and the part of MQTTBridge that marks and   *)
(* reports the status: pause and cancel handlers, listener, heartbeat.     *)
(*                                                                         *)
(* Threads.  Telemetry takes the printer's lines and notes their absence;  *)
(* Network, paho's thread, handles pause-job and cancel-job; Heartbeat     *)
(* reports periodically.  StateManager.update writes and copies under its  *)
(* lock (one step) and calls the listener afterwards, with the copy, so a  *)
(* copy may be reported after a later one.                                 *)
(*                                                                         *)
(* "Reported" is what MQTTClient.publish was last called with; module      *)
(* CommandRouter has the way on from there.  The job manager appears as    *)
(* far as the handlers see it: its slot, its queue, its lock.  resume-job  *)
(* changes nothing here and is left out.  Temperatures are "none" or       *)
(* "read".  The wiring is main.py's: no write_fn and no on_event are       *)
(* given, so there is no probe, and the engine's own listener returns at   *)
(* once.                                                                   *)
(* "Variant:" as in MqttClient.                                            *)
(***************************************************************************)
EXTENDS Integers, Sequences, FiniteSets, SequencesExt

CONSTANTS
    NumJobs,        \* jobs submitted, numbered in that order
    MaxCalls,       \* bound on pause-job and cancel-job messages
    MaxOutages      \* bound on lost connections

ASSUME BoundsAssumption == NumJobs \in Nat /\ MaxCalls \in Nat /\ MaxOutages \in Nat

Statuses == {"UNKNOWN", "IDLE", "PRINTING", "PAUSED", "ERROR", "REBOOTING"}
Temps    == {"none", "read"}
Snapshots == [status : Statuses, temp : Temps]
Threads  == {"telemetry", "network", "heartbeat"}
Jobs     == 1..NumJobs
NoJob    == 0

\* What the parsers can find in a line, each one by a pattern of its own.
Findings == {"reboot", "temp", "position", "sdStart", "sdProgress", "sdDone", "pause", "resume"}
\* Lines of one printer answer or message: at most two findings.
Lines == {l \in SUBSET Findings : Cardinality(l) <= 2 /\ ~({"sdStart", "sdProgress"} \subseteq l)}

VARIABLES
    state,          \* StateManager._state
    copy,           \* the snapshot a thread holds
    pc,             \* where a thread stands
    updates,        \* the local of _process_line: [status, temp], "keep" for none
    heardLine,      \* _last_line_ts is set
    quiet,          \* now < _suppress_printing_until
    slot, queue,    \* JobManager._active, _queue
    handing,        \* a finished job's thread holds the manager's lock
    served,         \* jobs submitted so far
    calls, outages, \* control messages, lost connections so far
    online,         \* MQTTClient.is_connected
    reported,       \* the last status published: a member of Reports
    \* History: written, never read by a guard.
    tookSlot,       \* jobs that took the slot since the handler found it empty
    lateOffline     \* OFFLINE reports since the status left UNKNOWN, up to 2

telemetry == <<updates, heardLine, quiet>>
jobs      == <<slot, queue, handing, served>>
cloud     == <<online, outages, reported, lateOffline>>
vars == <<state, copy, pc, telemetry, jobs, calls, cloud, tookSlot>>

Unread == [status |-> "UNKNOWN", temp |-> "none"]
Keep   == [status |-> "keep", temp |-> "keep"]

Init ==
    /\ state = Unread /\ copy = [t \in Threads |-> Unread]
    /\ pc = [t \in Threads |-> "idle"]
    /\ updates = Keep /\ heardLine = FALSE /\ quiet = FALSE
    /\ slot = NoJob /\ queue = <<>> /\ handing = FALSE /\ served = 0
    /\ calls = 0 /\ outages = 0 /\ online = TRUE
    /\ reported = "none" /\ tookSlot = {} /\ lateOffline = 0

-----------------------------------------------------------------------------
(* StateManager and the report of a snapshot.                              *)

\* update(): writes and copies; the listener is called when a value changed.
Update(t, fields, changed, unchanged) ==
    LET new == [status |-> IF fields.status = "keep" THEN state.status ELSE fields.status,
                temp   |-> IF fields.temp = "keep" THEN state.temp ELSE fields.temp]
    IN /\ state' = new
       /\ copy' = [copy EXCEPT ![t] = new]
       /\ pc' = [pc EXCEPT ![t] = IF new # state THEN changed ELSE unchanged]

SetStatus(s) == [status |-> s, temp |-> "keep"]

GetSnapshot(t) == copy' = [copy EXCEPT ![t] = state]

Reports == {"IDLE", "PRINTING", "PAUSED", "OFFLINE"}
StatusMap(s) == IF s \in {"ERROR", "REBOOTING", "UNKNOWN"} THEN "OFFLINE" ELSE s

\* _publish_printer_state of the snapshot the thread holds.
Report(t) ==
    /\ reported' = StatusMap(copy[t].status)
    /\ lateOffline' = IF reported' = "OFFLINE" /\ state.status # "UNKNOWN" /\ lateOffline < 2
                      THEN lateOffline + 1 ELSE lateOffline

-----------------------------------------------------------------------------
(* TelemetryEngine.                                                        *)

\* The status a line calls for: of the tests of _process_line that hold, in
\* their order, the last one writes updates["status"] last.
StatusCalledFor(line, now) ==
    LET tests == << [holds |-> "reboot" \in line,                     to |-> "REBOOTING"],
                    [holds |-> "temp" \in line /\ now \in {"UNKNOWN", "REBOOTING"},
                                                                     to |-> "IDLE"],
                    [holds |-> "sdProgress" \in line /\ ~quiet,       to |-> "PRINTING"],
                    [holds |-> "sdDone" \in line,                     to |-> "IDLE"],
                    [holds |-> "pause" \in line,                      to |-> "PAUSED"],
                    [holds |-> "resume" \in line /\ ~quiet,           to |-> "PRINTING"] >>
        held == {k \in DOMAIN tests : tests[k].holds}
    IN IF held = {} THEN "keep" ELSE tests[Max(held)].to

\* _run takes a line and _process_line collects its updates; the status it
\* reads may have changed by the time they are applied, if they were.
HearLine(line) ==
    /\ pc["telemetry"] = "idle"
    /\ pc' = [pc EXCEPT !["telemetry"] = "parsed"]
    /\ heardLine' = TRUE
    /\ updates' = [status |-> StatusCalledFor(line, state.status),
                   temp   |-> IF "temp" \in line THEN "read" ELSE "keep"]
    /\ UNCHANGED <<state, copy, quiet, jobs, calls, cloud, tookSlot>>

\* A number the patterns let through and float() does not ("T:20.5.1"): the
\* exception leaves _run, and nothing starts the thread again.
HearGarbled ==
    /\ pc["telemetry"] = "idle"
    /\ pc' = [pc EXCEPT !["telemetry"] = "over"]
    /\ heardLine' = TRUE
    /\ UNCHANGED <<state, copy, updates, quiet, jobs, calls, cloud, tookSlot>>

\* The end of _process_line: the statement that hands the updates to
\* StateManager stands in suppress_printing, so they are dropped here.
EndLine ==
    /\ pc["telemetry"] = "parsed"
    /\ pc' = [pc EXCEPT !["telemetry"] = "idle"]
    /\ updates' = Keep
    /\ UNCHANGED <<state, copy, heardLine, quiet, jobs, calls, cloud, tookSlot>>

\* _check_idle_timeout, no line for TELEMETRY_IDLE_TIMEOUT_SEC: the snapshot,
\* and then an update that does not look again.
CheckIdle ==
    /\ pc["telemetry"] = "idle" /\ heardLine
    /\ pc' = [pc EXCEPT !["telemetry"] = "checked"]
    /\ GetSnapshot("telemetry")
    /\ UNCHANGED <<state, telemetry, jobs, calls, cloud, tookSlot>>

IdleTimeout ==
    /\ pc["telemetry"] = "checked"
    /\ IF copy["telemetry"].status \in {"IDLE", "ERROR", "UNKNOWN"}
       THEN /\ pc' = [pc EXCEPT !["telemetry"] = "idle"]
            /\ UNCHANGED <<state, copy>>
       ELSE Update("telemetry", SetStatus("IDLE"), "fire", "idle")
    /\ UNCHANGED <<telemetry, jobs, calls, cloud, tookSlot>>

\* The bridge's listener, in the thread whose update changed something.
TelemetryReports ==
    /\ pc["telemetry"] = "fire"
    /\ pc' = [pc EXCEPT !["telemetry"] = "idle"]
    /\ Report("telemetry")
    /\ UNCHANGED <<state, copy, telemetry, jobs, calls, online, outages, tookSlot>>

QuietEnds ==
    /\ quiet /\ quiet' = FALSE
    /\ UNCHANGED <<state, copy, pc, updates, heardLine, jobs, calls, cloud, tookSlot>>

-----------------------------------------------------------------------------
(* JobManager as the handlers see it.                                      *)

\* submit, under the lock.
SubmitJob ==
    /\ served < NumJobs /\ ~handing
    /\ served' = served + 1
    /\ IF slot = NoJob
       THEN slot' = served' /\ tookSlot' = tookSlot \cup {served'} /\ UNCHANGED queue
       ELSE queue' = Append(queue, served') /\ UNCHANGED <<slot, tookSlot>>
    /\ UNCHANGED <<state, copy, pc, telemetry, handing, calls, cloud>>

\* _on_job_finished: the slot is empty before the next job is put there; the
\* bridge's two reads take no lock and may fall in between.
FinishJob ==
    /\ slot # NoJob /\ ~handing
    /\ slot' = NoJob /\ handing' = TRUE
    /\ UNCHANGED <<state, copy, pc, telemetry, queue, served, calls, cloud, tookSlot>>

HandOver ==
    /\ handing /\ handing' = FALSE
    /\ IF queue = <<>> THEN UNCHANGED <<slot, queue, tookSlot>>
       ELSE /\ slot' = Head(queue) /\ queue' = Tail(queue)
            /\ tookSlot' = tookSlot \cup {Head(queue)}
    /\ UNCHANGED <<state, copy, pc, telemetry, served, calls, cloud>>

-----------------------------------------------------------------------------
(* The handlers of MQTTBridge, in paho's thread: one message at a time.    *)

\* pause() is ok for the active job whatever its state.
HandlePause(j) ==
    /\ pc["network"] = "idle" /\ ~handing
    /\ calls < MaxCalls /\ calls' = calls + 1
    /\ pc' = [pc EXCEPT !["network"] = IF slot = j THEN "pauseMark" ELSE "idle"]
    /\ UNCHANGED <<state, copy, telemetry, jobs, cloud, tookSlot>>

PauseMark ==
    /\ pc["network"] = "pauseMark"
    /\ Update("network", SetStatus("PAUSED"), "pauseFire", "pauseForce")
    /\ UNCHANGED <<telemetry, jobs, calls, cloud, tookSlot>>

\* The active job is only told to end: the slot is its own until its thread
\* is done.  A waiting one is taken out of the queue.
HandleCancel(j) ==
    /\ pc["network"] = "idle" /\ ~handing
    /\ calls < MaxCalls /\ calls' = calls + 1
    /\ LET found == {n \in DOMAIN queue : slot # j /\ queue[n] = j}
       IN /\ \/ found = {} /\ UNCHANGED queue
             \/ \E n \in found : queue' = RemoveAt(queue, n)
          /\ pc' = [pc EXCEPT !["network"] = IF slot = j \/ found # {} THEN "readActive" ELSE "idle"]
    /\ UNCHANGED <<state, copy, telemetry, slot, handing, served, cloud, tookSlot>>

\* Variant: the queue alone is looked at.
SkipActive ==
    /\ pc["network"] = "readActive"
    /\ pc' = [pc EXCEPT !["network"] = "readQueue"]
    /\ tookSlot' = {}
    /\ UNCHANGED <<state, copy, telemetry, jobs, calls, cloud>>

ReadActive ==
    /\ pc["network"] = "readActive"
    /\ pc' = [pc EXCEPT !["network"] = IF slot = NoJob THEN "readQueue" ELSE "idle"]
    /\ tookSlot' = {}
    /\ UNCHANGED <<state, copy, telemetry, jobs, calls, cloud>>

ReadQueue ==
    /\ pc["network"] = "readQueue"
    /\ pc' = [pc EXCEPT !["network"] = IF queue = <<>> THEN "cancelMark" ELSE "idle"]
    /\ UNCHANGED <<state, copy, telemetry, jobs, calls, cloud, tookSlot>>

CancelMark ==
    /\ pc["network"] = "cancelMark"
    /\ Update("network", SetStatus("IDLE"), "cancelFire", "cancelForce")
    /\ UNCHANGED <<telemetry, jobs, calls, cloud, tookSlot>>

\* The listener's report, the fresh snapshot, and its report.
NetworkReports(now, then) ==
    /\ pc["network"] = now
    /\ pc' = [pc EXCEPT !["network"] = then]
    /\ Report("network")
    /\ UNCHANGED <<state, copy, telemetry, jobs, calls, online, outages, tookSlot>>

NetworkLooks(now, then) ==
    /\ pc["network"] = now
    /\ pc' = [pc EXCEPT !["network"] = then]
    /\ GetSnapshot("network")
    /\ UNCHANGED <<state, telemetry, jobs, calls, cloud, tookSlot>>

\* The window is set, then the block that refers to _process_line's local
\* raises a NameError, which the handler logs.
SuppressPrinting ==
    /\ pc["network"] = "suppress"
    /\ pc' = [pc EXCEPT !["network"] = "idle"]
    /\ quiet' = TRUE
    /\ UNCHANGED <<state, copy, updates, heardLine, jobs, calls, cloud, tookSlot>>

-----------------------------------------------------------------------------
(* The heartbeat; the connection.                                          *)

\* Variant: the snapshot is taken before the loop.
BeatCached ==
    /\ pc["heartbeat"] = "idle" /\ online
    /\ pc' = [pc EXCEPT !["heartbeat"] = "fire"]
    /\ UNCHANGED <<state, copy, telemetry, jobs, calls, cloud, tookSlot>>

\* _heartbeat_loop, every MQTT_STATE_PUBLISH_INTERVAL_SEC, when connected.
Beat ==
    /\ pc["heartbeat"] = "idle" /\ online
    /\ pc' = [pc EXCEPT !["heartbeat"] = "fire"]
    /\ GetSnapshot("heartbeat")
    /\ UNCHANGED <<state, telemetry, jobs, calls, cloud, tookSlot>>

\* Variant: one report and the thread ends.
BeatReportsOnce ==
    /\ pc["heartbeat"] = "fire"
    /\ pc' = [pc EXCEPT !["heartbeat"] = "over"]
    /\ Report("heartbeat")
    /\ UNCHANGED <<state, copy, telemetry, jobs, calls, online, outages, tookSlot>>

BeatReports ==
    /\ pc["heartbeat"] = "fire"
    /\ pc' = [pc EXCEPT !["heartbeat"] = "idle"]
    /\ Report("heartbeat")
    /\ UNCHANGED <<state, copy, telemetry, jobs, calls, online, outages, tookSlot>>

\* External: the session is lost and comes back.
Outage ==
    /\ online' = ~online
    /\ IF online THEN outages < MaxOutages /\ outages' = outages + 1 ELSE UNCHANGED outages
    /\ UNCHANGED <<state, copy, pc, telemetry, jobs, calls, reported, lateOffline, tookSlot>>

TelemetryNext == EndLine \/ CheckIdle \/ IdleTimeout \/ TelemetryReports
HandlerNext   == \/ PauseMark \/ ReadActive \/ ReadQueue \/ CancelMark \/ SuppressPrinting
                 \/ NetworkReports("pauseFire", "pauseForce")
                 \/ NetworkLooks("pauseForce", "pauseForced")
                 \/ NetworkReports("pauseForced", "idle")
                 \/ NetworkReports("cancelFire", "cancelForce")
                 \/ NetworkLooks("cancelForce", "cancelForced")
                 \/ NetworkReports("cancelForced", "suppress")
HeartbeatNext == Beat \/ BeatReports
JobsNext      == SubmitJob \/ FinishJob \/ HandOver

Next ==
    \/ HearGarbled \/ \E line \in Lines : HearLine(line)
    \/ \E j \in Jobs : HandlePause(j) \/ HandleCancel(j)
    \/ TelemetryNext \/ HandlerNext \/ HeartbeatNext \/ JobsNext \/ QuietEnds \/ Outage

Spec == Init /\ [][Next]_vars

\* Threads go on; whether lines or messages come and jobs end is left open.
FairSpec ==
    /\ Spec
    /\ WF_vars(EndLine) /\ WF_vars(IdleTimeout) /\ WF_vars(TelemetryReports)
    /\ WF_vars(HandlerNext) /\ WF_vars(HeartbeatNext) /\ WF_vars(HandOver)

-----------------------------------------------------------------------------
(* Properties.                                                             *)

\* The domains of the variables.
TypeOK ==
    /\ state \in Snapshots /\ copy \in [Threads -> Snapshots]
    /\ pc["telemetry"] \in {"idle", "parsed", "checked", "fire", "over"}
    /\ pc["heartbeat"] \in {"idle", "fire"}
    /\ pc["network"] \in {"idle", "pauseMark", "pauseFire", "pauseForce", "pauseForced",
                          "readActive", "readQueue", "cancelMark", "cancelFire",
                          "cancelForce", "cancelForced", "suppress"}
    /\ updates \in [status : Statuses \cup {"keep"}, temp : Temps \cup {"keep"}]
    /\ heardLine \in BOOLEAN /\ quiet \in BOOLEAN /\ handing \in BOOLEAN /\ online \in BOOLEAN
    /\ slot \in Jobs \cup {NoJob} /\ queue \in Seq(Jobs) /\ served \in 0..NumJobs
    /\ calls \in 0..MaxCalls /\ outages \in 0..MaxOutages
    /\ reported \in Reports \cup {"none"}
    /\ tookSlot \subseteq Jobs /\ lateOffline \in 0..2

\* The cancel handler calls the printer idle on two reads without the lock.
\* A job that has the slot by then took it after the first read: a job that
\* was running when the cancel returned is never called idle.
IdleClaimRecent ==
    pc["network"] = "cancelMark" /\ slot # NoJob => slot \in tookSlot

\* Snapshots are reported late, but each thread holds one: after the status
\* has left UNKNOWN the printer is reported OFFLINE at most once more, by
\* the heartbeat that was under way.
OfflineOnceMore == lateOffline <= 1

\* While the connection lasts the heartbeat repairs what reports in the
\* wrong order left behind, also when the telemetry thread has died: the
\* cloud's last word is the status.
SettledReport ==
    <>[]online => <>[](reported = StatusMap(state.status))

\* docs/sprint3.md:57: "Receiving a temperature line while status is
\* `UNKNOWN` or `REBOOTING` moves the printer to `IDLE`."
TemperatureBringsIdle ==
    [][EndLine /\ updates.temp = "read" => state'.status \notin {"UNKNOWN", "REBOOTING"}]_vars
=============================================================================
