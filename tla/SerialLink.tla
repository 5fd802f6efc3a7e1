----------------------------- MODULE SerialLink -----------------------------
(***************************************************************************)
(* The serial side of one command after another: the QueueProcessor thread *)
(* inside PrinterCommunicator.send_command and SerialConnection.reconnect, *)
(* the SerialRouter thread that alone reads the port, the bounded ack      *)
(* queue between them, and the printer.                                    *)
(*                                                                         *)
(* Commands are the numbers 1..NumCmds, in the order the processor takes   *)
(* them.  A line in the ack queue or on the wire is a number as well: m    *)
(* for the "ok" the printer sent for command m (the hub sees only "ok"),   *)
(* Other for any other line _is_ack_line lets through.  Time is            *)
(* abstracted: an attempt may time out at any moment of its wait.          *)
(*                                                                         *)
(* One reading of a line and its put are one step: reconnect first sleeps  *)
(* RECONNECT_DELAY_SEC, longer than a put takes.  The telemetry queue, fed *)
(* by the same thread, is not here.                                        *)
(*                                                                         *)
(* The printer is external: it executes lines in order of arrival, answers *)
(* each with one "ok", reports temperatures on its own, and may or may not *)
(* reset when the port is opened.                                          *)
(***************************************************************************)
EXTENDS Naturals, Sequences, FiniteSets, SequencesExt

CONSTANTS
    NumCmds,        \* the commands that are sent
    MaxRetries,     \* MAX_RETRIES: attempts per command
    AckSize,        \* capacity of the ack queue
    MaxLosses,      \* bound: losses of the connection
    MaxReports      \* bound: unsolicited lines of the printer

ASSUME SizesAssumption  == NumCmds \in Nat /\ MaxRetries \in Nat \ {0} /\ AckSize \in Nat \ {0}
ASSUME BoundsAssumption == MaxLosses \in Nat /\ MaxReports \in Nat

Other == 0
Cmd   == 1..NumCmds

VARIABLES
    connected,      \* SerialConnection.is_connected
    ackQ,           \* SerialRouter.ack_queue
    wire,           \* bytes from the printer not yet read
    inbox,          \* lines the printer has received and not yet executed
    reader,         \* the router's thread: in readline, waiting for a port,
                    \* or gone
    n,              \* the command the processor is at; 0 before the first
    attempt,        \* attempt of send_command
    worker,         \* where the processor thread stands
    result,         \* how send_command ended for each command
    losses, reports,
    \* History: written, never read by a guard.
    executed,       \* the commands the printer has executed
    surplus,        \* lines handed to the printer by attempts that gave up
                    \* waiting for them, since the printer was last reset
    lostCmds        \* commands failed since the connection was lost

link  == <<connected, wire, inbox, reader>>
send  == <<n, attempt, worker, result>>
hist  == <<executed, surplus, lostCmds>>
vars  == <<link, ackQ, send, losses, reports, hist>>

WorkerPoints == {"idle", "writing", "reading", "reconnecting", "stabilising", "flushing"}
Results      == {"none", "OK", "UNRESPONSIVE", "SERIAL"}

Init ==
    /\ connected = TRUE /\ wire = <<>> /\ inbox = <<>> /\ ackQ = <<>>
    /\ reader = "waiting"
    /\ n = 0 /\ attempt = 0 /\ worker = "idle" /\ result = [m \in Cmd |-> "none"]
    /\ losses = 0 /\ reports = 0
    /\ executed = {} /\ surplus = 0 /\ lostCmds = 0

-----------------------------------------------------------------------------
(* send_command, on the processor's thread. *)

\* How command m ends; a failure that leaves no port counts as lost.
End(m, r, next) ==
    /\ result' = [result EXCEPT ![m] = r]
    /\ worker' = next
    /\ lostCmds' = CASE r = "OK" -> 0
                    [] r # "OK" /\ connected' -> lostCmds
                    [] r # "OK" /\ ~connected' -> lostCmds + 1

\* Variant: send_command does not ask whether the port is connected.
BeginUnchecked ==
    /\ worker = "idle" /\ n < NumCmds /\ n' = n + 1
    /\ attempt' = 1 /\ worker' = "writing"
    /\ UNCHANGED <<link, ackQ, result, losses, reports, hist>>

\* disconnect closes the port under a read in progress: that returns nothing,
\* or, with a line just coming in, raises a TypeError in pyserial, which
\* read_line does not catch and which ends the router's thread.
Disconnect ==
    reader' \in IF reader = "reading" THEN {"waiting", "gone"} ELSE {reader}

\* The next command; SerialConnectionError, and a reconnect, without a port.
Begin ==
    /\ worker = "idle" /\ n < NumCmds /\ n' = n + 1
    /\ UNCHANGED <<connected, wire, inbox, ackQ, losses, reports, executed, surplus>>
    /\ \/ /\ connected /\ attempt' = 1 /\ worker' = "writing"
          /\ UNCHANGED <<reader, result, lostCmds>>
       \/ /\ ~connected /\ End(n + 1, "SERIAL", "reconnecting") /\ Disconnect
          /\ UNCHANGED attempt

\* The attempt is over: try again, or PrinterUnresponsiveError.
NextAttempt ==
    \/ /\ attempt < MaxRetries /\ attempt' = attempt + 1 /\ worker' = "writing"
       /\ UNCHANGED <<result, lostCmds>>
    \/ attempt >= MaxRetries /\ End(n, "UNRESPONSIVE", "idle") /\ UNCHANGED attempt

Write ==
    /\ worker = "writing" /\ connected
    /\ inbox' = Append(inbox, n) /\ worker' = "reading"
    /\ UNCHANGED <<connected, wire, reader, ackQ, n, attempt, result, losses, reports, hist>>

\* A write that raises may have reached the printer or not.
WriteFails ==
    /\ worker = "writing"
    /\ \/ ~connected /\ UNCHANGED <<connected, wire, inbox, losses, surplus>>
       \/ /\ connected /\ losses < MaxLosses /\ losses' = losses + 1
          /\ connected' = FALSE /\ wire' = <<>>
          /\ \/ inbox' = Append(inbox, n) /\ surplus' = surplus + 1
             \/ UNCHANGED <<inbox, surplus>>
    /\ NextAttempt
    /\ UNCHANGED <<reader, ackQ, n, reports, executed>>

\* Variant: any line ends the wait.
TakeAnyLine ==
    /\ worker = "reading" /\ ackQ # <<>> /\ ackQ' = Tail(ackQ)
    /\ UNCHANGED <<link, n, attempt, losses, reports, executed, surplus>>
    /\ End(n, "OK", "idle")

\* _read_until_ok takes a line: "ok" ends the wait, anything else does not.
TakeLine ==
    /\ worker = "reading" /\ ackQ # <<>> /\ ackQ' = Tail(ackQ)
    /\ UNCHANGED <<link, n, attempt, losses, reports, executed, surplus>>
    /\ \/ Head(ackQ) = Other /\ UNCHANGED <<worker, result, lostCmds>>
       \/ Head(ackQ) # Other /\ End(n, "OK", "idle")

\* Variant: the attempts are not counted.
TimeOutForever ==
    /\ worker = "reading" /\ worker' = "writing" /\ surplus' = 0
    /\ UNCHANGED <<link, ackQ, n, attempt, result, losses, reports, executed, lostCmds>>

TimeOut ==
    /\ worker = "reading" /\ surplus' = surplus + 1
    /\ UNCHANGED <<link, ackQ, n, losses, reports, executed>>
    /\ NextAttempt

-----------------------------------------------------------------------------
(* reconnect, on the same thread. *)

\* One of the attempts opens the port, or all of them fail.
Reopen ==
    /\ worker = "reconnecting" /\ lostCmds' = 0
    /\ \/ worker' = "idle" /\ UNCHANGED <<connected, wire, inbox, surplus>>
       \/ /\ worker' = "stabilising" /\ connected' = TRUE /\ wire' = <<>>
          /\ \/ inbox' = <<>> /\ surplus' = 0        \* the printer resets
             \/ UNCHANGED <<inbox, surplus>>
    /\ UNCHANGED <<reader, ackQ, n, attempt, result, losses, reports, executed>>

\* What the port holds by now is discarded; the router reads it meanwhile.
Stabilise ==
    /\ worker = "stabilising"
    /\ \/ worker' = "flushing" /\ wire' = <<>> /\ UNCHANGED connected
       \/ ~connected /\ worker' = "reconnecting" /\ UNCHANGED <<connected, wire>>
    /\ UNCHANGED <<inbox, reader, ackQ, n, attempt, result, losses, reports, hist>>

\* Variant: no on_reconnect hook.
FlushNothing ==
    /\ worker = "flushing" /\ worker' = "idle"
    /\ UNCHANGED <<link, ackQ, n, attempt, result, losses, reports, hist>>

\* on_reconnect is SerialRouter.reset_queues.
Flush ==
    /\ worker = "flushing" /\ worker' = "idle" /\ ackQ' = <<>>
    /\ UNCHANGED <<link, n, attempt, result, losses, reports, hist>>

-----------------------------------------------------------------------------
(* The router thread, _read_loop. *)

\* Variant: the put waits for no one.
RouteUnbounded ==
    /\ reader = "reading" /\ wire # <<>> /\ wire' = Tail(wire)
    /\ ackQ' = Append(ackQ, Head(wire))
    /\ UNCHANGED <<connected, inbox, reader, send, losses, reports, hist>>

\* _put_nowait: the oldest line makes room for the newest.
Route ==
    /\ reader = "reading" /\ wire # <<>> /\ wire' = Tail(wire)
    /\ ackQ' = IF Len(ackQ) < AckSize THEN Append(ackQ, Head(wire))
                                      ELSE Append(Tail(ackQ), Head(wire))
    /\ UNCHANGED <<connected, inbox, reader, send, losses, reports, hist>>

\* The loop looks at is_connected: it calls read_line, or waits.
Look ==
    /\ reader # "gone" /\ reader' = IF connected THEN "reading" ELSE "waiting"
    /\ reader' # reader
    /\ UNCHANGED <<connected, wire, inbox, ackQ, send, losses, reports, hist>>

\* read_line meets a SerialException.
ReadFails ==
    /\ reader = "reading" /\ reader' = "waiting"
    /\ connected /\ losses < MaxLosses /\ losses' = losses + 1
    /\ connected' = FALSE /\ wire' = <<>>
    /\ UNCHANGED <<inbox, ackQ, send, reports, hist>>

-----------------------------------------------------------------------------
(* The printer (external).  What it says while nobody listens is lost. *)

Say(line) == wire' = IF connected THEN Append(wire, line) ELSE wire

Execute ==
    /\ inbox # <<>> /\ inbox' = Tail(inbox)
    /\ Say(Head(inbox)) /\ executed' = executed \cup {Head(inbox)}
    /\ UNCHANGED <<connected, reader, ackQ, send, losses, reports, surplus, lostCmds>>

Report ==
    /\ reports < MaxReports /\ reports' = reports + 1
    /\ Say(Other)
    /\ UNCHANGED <<connected, inbox, reader, ackQ, send, losses, hist>>

-----------------------------------------------------------------------------
Work == \/ Begin \/ Write \/ WriteFails \/ TakeLine \/ TimeOut
        \/ Reopen \/ Stabilise \/ Flush

Next == Work \/ Look \/ Route \/ ReadFails \/ Execute \/ Report

Spec == Init /\ [][Next]_vars

\* The processor's thread is scheduled, and a deadline passes.  Nothing is
\* assumed of the printer, the port or the router.
FairSpec == Spec /\ WF_vars(Work) /\ WF_vars(TimeOut)

-----------------------------------------------------------------------------
(* Properties. *)

TypeOK ==
    /\ connected \in BOOLEAN /\ reader \in {"waiting", "reading", "gone"}
    /\ wire \in Seq(Cmd \cup {Other}) /\ inbox \in Seq(Cmd)
    /\ ackQ \in Seq(Cmd \cup {Other}) /\ Len(ackQ) <= AckSize
    /\ n \in 0..NumCmds /\ attempt \in 0..MaxRetries
    /\ worker \in WorkerPoints /\ result \in [Cmd -> Results]
    /\ losses \in 0..MaxLosses /\ reports \in 0..MaxReports
    /\ executed \subseteq Cmd /\ surplus \in Nat /\ lostCmds \in Nat

Acks(s) == Cardinality({k \in DOMAIN s : s[k] # Other})

\* Flow control: lines the printer has not executed and answers not yet
\* taken are together at most the attempts that gave up, plus the one that is
\* waiting.  So without time-outs the printer's buffer never holds two lines
\* and no stale "ok" awaits the next command, also after a reconnect to a
\* printer that was reset.
OutstandingBound ==
    (connected /\ worker \in {"idle", "writing", "reading"}) =>
        Len(inbox) + Acks(wire) + Acks(ackQ)
            <= surplus + (IF worker = "reading" THEN 1 ELSE 0)

\* Commands reported OK that the printer still has to execute are at most as
\* many as attempts gave up: each time-out lets the hub run ahead of the
\* printer by one command, never by more.
PrematureBound ==
    Cardinality({m \in ToSet(inbox) : result[m] = "OK" /\ m \notin executed}) <= surplus

\* However the connection is lost, at most two commands fail before a
\* reconnect is tried: the one under way and the next.
LossNoticed == lostCmds <= 2

\* Every command that is begun ends, with a dead printer and a dead port too.
EachEnds == \A m \in Cmd : (n = m) ~> result[m] # "none"

\* command_engine.py:48 "Guarantee sequential execution with ok-sync" and
\* command_engine.py:122 "Each command waits for "ok" before the next begins":
\* a command that ended with an ok has been executed.
OkMeansExecuted == \A m \in Cmd : result[m] = "OK" => m \in executed

=============================================================================
