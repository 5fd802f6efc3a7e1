----------------------------- MODULE JobIntake -----------------------------
(***************************************************************************)
(* How jobs come in and how they survive the process: MQTTBridge's         *)
(* start-job handler and its thread per message, JobManager's submit,      *)
(* recover, pause, resume and cancel, the files of JobStore, the start and *)
(* the stop of main.py.                                                    *)
(*                                                                         *)
(* A start-job message is delivered at least once (QoS 1) and nothing      *)
(* looks for its job id, so one id may have several Job objects: tickets.  *)
(* They share one file.  A kill loses the tickets and keeps the files.     *)
(*                                                                         *)
(* JobControl has the executor line by line.  Here the active ticket       *)
(* prints, is held by a pause, is cancelled, and ends in one of the ways   *)
(* its file of G-code, the engine and the executor's unlocked checks       *)
(* allow, or does not end at all.  After main has stopped the engine every *)
(* send is REJECTED, while the executor goes on.                           *)
(*                                                                         *)
(* Ids are job ids whose letters, digits, "-" and "_" differ: others share *)
(* a file.  "Variant:" as in MqttClient.                                   *)
(***************************************************************************)
EXTENDS GcodeFilter, Integers, FiniteSets

CONSTANTS
    Ids,            \* job ids
    NumTickets,     \* bound on the Job objects of one process
    MaxMessages,    \* bound on deliveries of start-job messages
    MaxStarts,      \* bound on starts of the process
    MaxCancels      \* bound on cancel-job messages

ASSUME BoundsAssumption == {NumTickets, MaxMessages, MaxStarts, MaxCancels} \subseteq Nat

Tickets  == 1..NumTickets
NoTicket == 0
NoId     == "none"
ASSUME IdsAssumption == NoId \notin Ids

\* What the URL of a job may hold: a plain file, one with a numbered line,
\* one with nothing to execute.
Line(head) == [head |-> head, form |-> "spaced", long |-> FALSE, note |-> FALSE]
GcodeFiles == {<<Line(";"), Line("G"), Line("M")>>, <<Line("G"), Line("N")>>, <<Line(";")>>}

\* A start-job payload: a JSON object with exactly the fields of
\* StartJobMessage, for this printer.
Payloads == [parses : BOOLEAN, mine : BOOLEAN]

Resumable == {"PRINTING", "PAUSED", "QUEUED", "LOADING"}
Statuses  == Resumable \cup {"COMPLETED", "FAILED", "CANCELLED"}

VARIABLES
    phase,          \* where main.py stands
    url,            \* external: the file behind the URL of an id
    disk,           \* the status in the file of an id, "none" for no file
    found,          \* ids whose resumable file recover has still to place
    id, at,         \* of a ticket: its job id, where it stands
    active, queue,  \* JobManager._active, _queue
    starts, cancels,
    came,           \* deliveries of the start-job message of an id
    \* History: written, never read by a guard.
    done,           \* times a COMPLETED of an id was saved
    twice,          \* times recover placed an id beside a ticket of its own
    withdrawn       \* ids whose only ticket an acknowledged cancel took out
                    \* of the queue, and that have not come again since

tickets == <<id, at>>
manager == <<active, queue>>
bounds  == <<starts, cancels, came>>
history == <<done, twice, withdrawn>>
vars == <<phase, url, disk, found, tickets, manager, bounds, history>>

Init ==
    /\ phase = "off" /\ url \in [Ids -> GcodeFiles]
    /\ disk = [i \in Ids |-> "none"] /\ found = {}
    /\ id = [k \in Tickets |-> NoId] /\ at = [k \in Tickets |-> "none"]
    /\ active = NoTicket /\ queue = <<>>
    /\ starts = 0 /\ cancels = 0 /\ came = [i \in Ids |-> 0]
    /\ done = [i \in Ids |-> 0] /\ twice = [i \in Ids |-> 0] /\ withdrawn = {}

\* The messages of the cloud are heard from the moment the client is started.
Listening == phase \in {"started", "read", "placing", "up"}
\* recover holds the manager's lock for all its jobs.
LockFree  == phase # "placing"
Waiting   == {"loading", "loaded"}
\* "PAUSED": marked by pause, the executor not yet at its check; "held": in
\* the loop of _do_pause; "printed": past the last line and marked COMPLETED.
Running   == {"QUEUED", "PRINTING", "PAUSED", "held", "printed"}
\* The cancel Event is set and the executor still runs.  "cancelled": among
\* its lines, perhaps past its last check; "halting": with a check ahead;
\* "undone": it wrote PRINTING or PAUSED over the cancel; "overtaken": it
\* marked COMPLETED over it.
Ending    == {"cancelled", "halting", "undone", "overtaken"}
\* The executor is gone and on_finished was not called: "kept" with the
\* status CANCELLED, "left" with PRINTING.
Stuck     == {"kept", "left"}
Fresh     == {k \in Tickets : at[k] = "none"}
Live(i)   == {k \in Tickets : id[k] = i /\ at[k] \in Waiting \cup Running \cup Ending \cup Stuck}

\* Variant: the job that is started stays in the queue as well.
PutBoth(k) ==
    /\ active' = IF active = NoTicket THEN k ELSE active
    /\ queue' = Append(queue, k)

\* _start_job, or the end of the queue.
Put(k) ==
    IF active = NoTicket THEN active' = k /\ UNCHANGED queue
    ELSE queue' = Append(queue, k) /\ UNCHANGED active

Save(i, status) == disk' = [disk EXCEPT ![i] = status]

-----------------------------------------------------------------------------
(* The process: main.py and MQTTBridge.start and stop.                     *)

\* Up to bridge.start, which starts the MQTT client before it recovers.
Boot ==
    /\ phase = "off" /\ starts < MaxStarts
    /\ phase' = "started" /\ starts' = starts + 1
    /\ UNCHANGED <<url, disk, found, tickets, manager, cancels, came, history>>

\* main waits for a signal once bridge.start is done; the engine is stopped
\* after the MQTT client, the job manager is not stopped at all.
Stop ==
    /\ phase = "up"
    /\ phase' = "stopping"
    /\ UNCHANGED <<url, disk, found, tickets, manager, bounds, history>>

\* The end of main, or a kill at any moment: only the files stay.
Exit ==
    /\ phase # "off"
    /\ phase' = "off" /\ found' = {}
    /\ id' = [k \in Tickets |-> NoId] /\ at' = [k \in Tickets |-> "none"]
    /\ active' = NoTicket /\ queue' = <<>>
    /\ UNCHANGED <<url, disk, bounds, history>>

-----------------------------------------------------------------------------
(* recover: the files are read before the lock is taken.                   *)

\* Variant: finished jobs are taken up too.
RecoverReadAll ==
    /\ phase = "started"
    /\ phase' = "read"
    /\ found' = {i \in Ids : disk[i] \in Resumable \cup {"COMPLETED"}}
    /\ UNCHANGED <<url, disk, tickets, manager, bounds, history>>

RecoverRead ==
    /\ phase = "started"
    /\ phase' = "read"
    /\ found' = {i \in Ids : disk[i] \in Resumable}
    /\ UNCHANGED <<url, disk, tickets, manager, bounds, history>>

RecoverLock ==
    /\ phase = "read"
    /\ phase' = "placing"
    /\ UNCHANGED <<url, disk, found, tickets, manager, bounds, history>>

\* Tickets are numbered as they come.
NextTicket(k) == k \in Fresh /\ \A m \in Fresh : k <= m

\* One job of the loop, QUEUED again in memory and not on disk.  They come by
\* their created_at, which is left open here.  A file with no lines is
\* fetched again; if that fails the job is saved as FAILED.
RecoverPlace(i) ==
    /\ phase = "placing" /\ i \in found
    /\ found' = found \ {i}
    /\ \/ \E k \in Tickets :
             /\ NextTicket(k)
             /\ id' = [id EXCEPT ![k] = i] /\ at' = [at EXCEPT ![k] = "QUEUED"]
             /\ Put(k)
             /\ twice' = IF \E m \in Tickets : id[m] = i
                         THEN [twice EXCEPT ![i] = @ + 1] ELSE twice
             /\ UNCHANGED <<disk, done, withdrawn>>
       \/ /\ LoadFromString(url[i]) = <<>>
          /\ Save(i, "FAILED")
          /\ UNCHANGED <<tickets, manager, history>>
    /\ UNCHANGED <<phase, url, bounds>>

RecoverEnd ==
    /\ phase = "placing" /\ found = {}
    /\ phase' = "up"
    /\ UNCHANGED <<url, disk, found, tickets, manager, bounds, history>>

-----------------------------------------------------------------------------
(* start-job: the handler in paho's thread, then a thread per message.     *)

\* Enough tickets for the files that recover will place.
Room == Cardinality(Fresh) > Cardinality(IF phase = "started" THEN Ids ELSE found)

\* from_json and the printer id; anything else is logged and dropped.
HandleStartJob(i, raw) ==
    /\ Listening /\ FoldFunction(+, 0, came) < MaxMessages /\ Room
    /\ IF raw.parses /\ raw.mine
       THEN /\ \E k \in Tickets :
                 /\ NextTicket(k)
                 /\ id' = [id EXCEPT ![k] = i] /\ at' = [at EXCEPT ![k] = "loading"]
            /\ came' = [came EXCEPT ![i] = @ + 1]
            /\ withdrawn' = withdrawn \ {i}
       ELSE UNCHANGED <<tickets, came, withdrawn>>
    /\ UNCHANGED <<phase, url, disk, found, manager, starts, cancels, done, twice>>

\* submit, first part: load() and Job.create; a failed download is logged.
Load(k) ==
    /\ at[k] = "loading"
    /\ \/ at' = [at EXCEPT ![k] = "loaded"] /\ UNCHANGED id
       \/ at' = [at EXCEPT ![k] = "none"] /\ id' = [id EXCEPT ![k] = NoId]
    /\ UNCHANGED <<phase, url, disk, found, manager, bounds, history>>

\* Variant: a job that has to wait is not saved.
SubmitSavesActive(k) ==
    /\ at[k] = "loaded" /\ LockFree
    /\ at' = [at EXCEPT ![k] = "QUEUED"]
    /\ IF active = NoTicket THEN Save(id[k], "QUEUED") ELSE UNCHANGED disk
    /\ Put(k)
    /\ UNCHANGED <<phase, url, found, id, bounds, history>>

\* submit, second part, under the lock.
Submit(k) ==
    /\ at[k] = "loaded" /\ LockFree
    /\ at' = [at EXCEPT ![k] = "QUEUED"]
    /\ Save(id[k], "QUEUED")
    /\ Put(k)
    /\ UNCHANGED <<phase, url, found, id, bounds, history>>

-----------------------------------------------------------------------------
(* The active ticket's executor.                                           *)

\* _on_job_finished: the next ticket of the queue takes the slot.
HandOver ==
    IF queue = <<>> THEN active' = NoTicket /\ UNCHANGED queue
    ELSE active' = Head(queue) /\ queue' = Tail(queue)

BeginPrint(k) ==
    /\ active = k /\ at[k] = "QUEUED"
    /\ at' = [at EXCEPT ![k] = "PRINTING"]
    /\ Save(id[k], "PRINTING")
    /\ UNCHANGED <<phase, url, found, id, manager, bounds, history>>

\* Variant: the result of a send is not looked at.
SendAnyway(k) ==
    /\ active = k /\ at[k] \in {"PRINTING", "PAUSED", "cancelled"}
    /\ at' = [at EXCEPT ![k] = IF @ = "cancelled" THEN "overtaken" ELSE "printed"]
    /\ UNCHANGED <<phase, url, disk, found, id, manager, bounds, history>>

\* Every line is sent and ends with OK, and COMPLETED is marked: also over a
\* pause that came after the last check, and over a cancel that came between
\* the check of its Event and the mark.
SendLines(k) ==
    /\ active = k /\ at[k] \in {"PRINTING", "PAUSED", "cancelled"}
    /\ Refused(url[id[k]]) = {}
    /\ phase # "stopping" \/ LoadFromString(url[id[k]]) = <<>>
    /\ at' = [at EXCEPT ![k] = IF @ = "cancelled" THEN "overtaken" ELSE "printed"]
    /\ UNCHANGED <<phase, url, disk, found, id, manager, bounds, history>>

\* The executor is among its lines, or has undone a cancel and meets a fail
\* before it looks for the cancel again.
Failing == {"PRINTING", "PAUSED", "cancelled", "undone"}

\* Variant: a failed job keeps the slot.
FailKeepsSlot(k) ==
    /\ active = k /\ at[k] \in Failing /\ LockFree
    /\ LoadFromString(url[id[k]]) # <<>>
    /\ at' = [at EXCEPT ![k] = "FAILED"]
    /\ Save(id[k], "FAILED")
    /\ UNCHANGED <<phase, url, found, id, manager, bounds, history>>

\* A send ends otherwise: the validator refuses the line, the printer does
\* not answer, the engine is stopped; or vision has set the fail Event.
\* Saved, then handed over.
Fail(k) ==
    /\ active = k /\ at[k] \in Failing /\ LockFree
    /\ LoadFromString(url[id[k]]) # <<>>
    /\ at' = [at EXCEPT ![k] = "FAILED"]
    /\ Save(id[k], "FAILED")
    /\ HandOver
    /\ UNCHANGED <<phase, url, found, id, bounds, history>>

\* A completed job hands over first and is saved afterwards.
Complete(k) ==
    /\ active = k /\ at[k] \in {"printed", "overtaken"} /\ LockFree
    /\ at' = [at EXCEPT ![k] = "completing"]
    /\ HandOver
    /\ UNCHANGED <<phase, url, disk, found, id, bounds, history>>

SaveCompleted(k) ==
    /\ at[k] = "completing"
    /\ at' = [at EXCEPT ![k] = "COMPLETED"]
    /\ Save(id[k], "COMPLETED")
    /\ done' = [done EXCEPT ![id[k]] = @ + 1]
    /\ UNCHANGED <<phase, url, found, id, manager, bounds, twice, withdrawn>>

\* The check of the pause Event: _do_pause marks and saves, and waits.
Hold(k) ==
    /\ active = k /\ at[k] = "PAUSED" /\ LoadFromString(url[id[k]]) # <<>>
    /\ at' = [at EXCEPT ![k] = "held"]
    /\ Save(id[k], "PAUSED")
    /\ UNCHANGED <<phase, url, found, id, manager, bounds, history>>

\* A check meets the cancel Event: saved, then handed over.
EndCancelled(k) ==
    /\ active = k /\ at[k] \in {"cancelled", "halting", "undone"} /\ LockFree
    /\ at[k] = "undone" => LoadFromString(url[id[k]]) # <<>>
    /\ at' = [at EXCEPT ![k] = "CANCELLED"]
    /\ Save(id[k], "CANCELLED")
    /\ HandOver
    /\ UNCHANGED <<phase, url, found, id, bounds, history>>

\* The cancel came after the check: mark_printing at the start or the end of
\* a pause, or mark_paused, goes over CANCELLED.
Undo(k) ==
    /\ active = k /\ at[k] \in {"cancelled", "halting"}
    /\ at' = [at EXCEPT ![k] = "undone"]
    /\ \E status \in {"PRINTING", "PAUSED"} : Save(id[k], status)
    /\ UNCHANGED <<phase, url, found, id, manager, bounds, history>>

\* The executor returns without on_finished: past its last line it finds the
\* cancel Event, or a fail that came after the cancel finds the job ended.
LeaveSlot(k) ==
    /\ active = k
    /\ \/ at[k] \in {"cancelled", "halting"} /\ at' = [at EXCEPT ![k] = "kept"]
       \/ /\ at[k] = "undone" /\ LoadFromString(url[id[k]]) = <<>>
          /\ at' = [at EXCEPT ![k] = "left"]
    /\ UNCHANGED <<phase, url, disk, found, id, manager, bounds, history>>

\* vision fails a job that a pause holds.
FailHeld(k) ==
    /\ active = k /\ at[k] = "held" /\ LockFree
    /\ at' = [at EXCEPT ![k] = "FAILED"]
    /\ Save(id[k], "FAILED")
    /\ HandOver
    /\ UNCHANGED <<phase, url, found, id, bounds, history>>

-----------------------------------------------------------------------------
(* pause-job, resume-job and cancel-job.  The first two do nothing to a    *)
(* ticket that is not the active one, or to one without the status that    *)
(* they look for; what they write over "undone" or "left" is left out.     *)

Pause(k) ==
    /\ Listening /\ LockFree /\ active = k /\ at[k] = "PRINTING"
    /\ at' = [at EXCEPT ![k] = "PAUSED"]
    /\ Save(id[k], "PAUSED")
    /\ UNCHANGED <<phase, url, found, id, manager, bounds, history>>

Resume(k) ==
    /\ Listening /\ LockFree /\ active = k /\ at[k] \in {"PAUSED", "held"}
    /\ at' = [at EXCEPT ![k] = "PRINTING"]
    /\ Save(id[k], "PRINTING")
    /\ UNCHANGED <<phase, url, found, id, manager, bounds, history>>

\* The active ticket: the Event is set and, unless its job has ended in
\* memory, CANCELLED is marked and saved.  The slot stays the executor's.
CallOff ==
    /\ IF at[active] \in {"printed", "cancelled", "halting", "overtaken", "kept"}
       THEN UNCHANGED <<at, disk>>
       ELSE /\ Save(id[active], "CANCELLED")
            /\ at' = [at EXCEPT ![active] = IF @ \in {"PRINTING", "PAUSED"} THEN "cancelled"
                                           ELSE IF @ = "left" THEN "kept" ELSE "halting"]
    /\ UNCHANGED <<queue, withdrawn>>

Queued(i) == {n \in DOMAIN queue : id[queue[n]] = i}

\* Variant: the cancelled job is not saved.
WithdrawUnsaved(i) ==
    IF Queued(i) = {} THEN UNCHANGED <<queue, disk, at, withdrawn>>
    ELSE \E n \in Queued(i) :
           /\ \A m \in Queued(i) : n <= m
           /\ queue' = RemoveAt(queue, n)
           /\ at' = [at EXCEPT ![queue[n]] = "CANCELLED"]
           /\ UNCHANGED disk
           /\ withdrawn' = IF Live(i) = {queue[n]} /\ i \notin found
                           THEN withdrawn \cup {i} ELSE withdrawn

\* The first waiting ticket of the id is taken out and saved.  One that is
\* still being loaded is not found: the cloud is told nothing, it will print.
Withdraw(i) ==
    IF Queued(i) = {} THEN UNCHANGED <<queue, disk, at, withdrawn>>
    ELSE \E n \in Queued(i) :
           /\ \A m \in Queued(i) : n <= m
           /\ queue' = RemoveAt(queue, n)
           /\ at' = [at EXCEPT ![queue[n]] = "CANCELLED"]
           /\ Save(i, "CANCELLED")
           /\ withdrawn' = IF Live(i) = {queue[n]} /\ i \notin found
                           THEN withdrawn \cup {i} ELSE withdrawn

Cancel(i) ==
    /\ Listening /\ LockFree /\ cancels < MaxCancels
    /\ cancels' = cancels + 1
    /\ IF active # NoTicket /\ id[active] = i THEN CallOff ELSE Withdraw(i)
    /\ UNCHANGED <<phase, url, found, id, active, starts, came, done, twice>>

Executor(k) ==
    \/ BeginPrint(k) \/ SendLines(k) \/ Fail(k) \/ Complete(k) \/ SaveCompleted(k)
    \/ Hold(k) \/ EndCancelled(k) \/ Undo(k) \/ LeaveSlot(k)
Remote(k)   == Pause(k) \/ Resume(k) \/ FailHeld(k)
Recovery    == RecoverRead \/ RecoverLock \/ RecoverEnd \/ \E i \in Ids : RecoverPlace(i)

Next ==
    \/ Boot \/ Stop \/ Exit \/ Recovery
    \/ \E k \in Tickets : Load(k) \/ Submit(k) \/ Executor(k) \/ Remote(k)
    \/ \E i \in Ids : Cancel(i) \/ \E raw \in Payloads : HandleStartJob(i, raw)

Spec == Init /\ [][Next]_vars

\* The submitting threads and the executors go on, and so does recover; main
\* is not sure to be stopped or started again, a held job not to be resumed.
FairSpec ==
    /\ Spec /\ WF_vars(Recovery)
    /\ WF_vars(\E k \in Tickets : Load(k) \/ Submit(k))
    /\ WF_vars(\E k \in Tickets : Executor(k))

-----------------------------------------------------------------------------
(* Properties.                                                             *)

\* The domains of the variables; a ticket is active or waits, and only once.
TypeOK ==
    /\ phase \in {"off", "started", "read", "placing", "up", "stopping"}
    /\ url \in [Ids -> GcodeFiles] /\ disk \in [Ids -> Statuses \cup {"none"}]
    /\ found \subseteq Ids /\ id \in [Tickets -> Ids \cup {NoId}]
    /\ at \in [Tickets -> Waiting \cup Running \cup Ending \cup Stuck \cup
                 {"none", "completing", "COMPLETED", "FAILED", "CANCELLED"}]
    /\ active \in Tickets \cup {NoTicket} /\ queue \in Seq(Tickets)
    /\ IsInjective(queue) /\ active \notin Range(queue)
    /\ starts \in 0..MaxStarts /\ cancels \in 0..MaxCancels
    /\ {came, done, twice} \subseteq [Ids -> Nat] /\ withdrawn \subseteq Ids

\* Through kills, restarts and repeated deliveries a job is completed at most
\* once per delivery of its start-job message, and once more for each time
\* recover, which reads the files before it takes the lock, placed it beside
\* a ticket that a message of the same process had made.
PrintedPerDelivery == \A i \in Ids : done[i] <= came[i] + twice[i]

\* A job whose cancel was acknowledged while it waited never runs, in this
\* process or after a restart, unless its start-job comes again, another
\* ticket of it existed, or recover had already read its file.
CancelledStaysAway == \A i \in withdrawn : Live(i) = {}

\* A job that was accepted and neither ended nor cancelled is on disk as resumable, so a
\* kill at this moment does not lose it.  A second ticket of the id may have
\* overwritten the file, and recover that of a job with no lines to lose.
PlacedIsKept ==
    \A k \in Tickets : at[k] \in Running =>
        \/ disk[id[k]] \in Resumable
        \/ \E m \in Tickets \ {k} : id[m] = id[k]
        \/ LoadFromString(url[id[k]]) = <<>>

\* Whatever restarts lie between, COMPLETED means that the validator took
\* every line the pipeline kept; a job with a line that only the pipeline
\* takes (N10, G92.1, G1X10) fails when it gets there.
CompletedMeansAllSent ==
    \A i \in Ids : disk[i] = "COMPLETED" => Refused(url[i]) = {}

\* Once no more messages come, the accepted jobs, repeated or recovered, all
\* end or their process does, or else the active one holds up the others: in
\* a pause that nobody resumes, or because its executor went without
\* on_finished.  Nothing else does: no end of a job, and no cancel, leaves a
\* slot free with jobs in the queue, or taken by a job that has ended.
JobsRunOut ==
    LET busy == \E k \in Tickets :
                   at[k] \in Waiting \cup Running \cup Ending \cup Stuck \cup {"completing"}
        blocked == active # NoTicket /\ at[active] \in {"held"} \cup Stuck
    IN busy ~> (~busy \/ blocked)
=============================================================================
