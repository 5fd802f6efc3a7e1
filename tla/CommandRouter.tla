--------------------------- MODULE CommandRouter ---------------------------
(***************************************************************************)
(* Commands from the cloud and the answers to them: MessageValidator,      *)
(* CommandRouter with its thread per command, MQTTPublisher, on top of     *)
(* MqttClient.  One more publisher stands for the job layer, which reports *)
(* its states over the same outbox.                                        *)
(*                                                                         *)
(* The command engine appears as CommandService describes it: a send is    *)
(* answered, in its own time, with OK or not, and does not raise.          *)
(***************************************************************************)
EXTENDS MqttClient

CONSTANTS
    Commands,       \* command messages that may arrive
    JobReporter,    \* the publisher of job-state messages
    NumReports      \* bound on job-state messages

ASSUME PublishersAssumption == Publishers = Commands \cup {JobReporter}
ASSUME ReporterAssumption   == JobReporter \notin Commands
ASSUME WordsAssumption      == NumWords >= 5 /\ NumReports \in 0..NumWords

\* A payload as far as the validator tells them apart: whether it parses to
\* a JSON object, has the required fields, names this printer; its gcode.
Payloads == [object : BOOLEAN, fields : BOOLEAN, mine : BOOLEAN,
             gcode : {"line", "empty", "notString"}]

\* The CommandResponseMessages of one command, in the order of the code; the
\* second ERROR is the one of the except clause.
Number == [QUEUED |-> 1, EXECUTING |-> 2, SUCCESS |-> 3, ERROR |-> 4, EXCEPTION |-> 5]

VARIABLES
    stage,          \* where the thread of a command stands
    result,         \* what engine.send returned: "none", "OK" or "notOK"
    reports         \* job-state messages published

routerVars == <<stage, result, reports>>
vars == <<mqttVars, routerVars>>

Init == /\ MqttInit
        /\ stage = [c \in Commands |-> "unborn"]
        /\ result = [c \in Commands |-> "none"]
        /\ reports = 0

Said(c, word)  == [src |-> c, no |-> Number[word]]
Waiting        == Range(outbox) \cup {held}

-----------------------------------------------------------------------------
(* MessageValidator.parse_command; the whitelist of prefixes is empty.     *)

ParsesAsJson(raw)    == raw.object
HasFields(raw)       == raw.fields
VerifiesPrinter(raw) == raw.mine
VerifiesGcode(raw)   == raw.gcode = "line"
ParseCommand(raw)    == /\ ParsesAsJson(raw) /\ HasFields(raw)
                        /\ VerifiesPrinter(raw) /\ VerifiesGcode(raw)

\* command_response: the publish goes through MQTTClient.
Answer(c, word) == Publish(c, Number[word])

\* paho calls _on_message while the session has the topics; what the handler
\* raises is logged there.
OnMessage == listening /\ dial = "serving"

\* handle_command, in paho's network thread: refused payloads are logged and
\* get no answer; a thread is started for the others, and starts to answer.
HandleCommand(c, raw) ==
    /\ OnMessage
    /\ stage[c] = "unborn"
    /\ IF ParseCommand(raw)
       THEN stage' = [stage EXCEPT ![c] = "QUEUED"] /\ Answer(c, "QUEUED")
       ELSE stage' = [stage EXCEPT ![c] = "refused"] /\ UNCHANGED <<at, arg>>
    /\ UNCHANGED <<conn, box, topics, tally, result, reports>>

\* Both answers before the engine is called; nothing catches a queue.Full
\* here, the thread ends and the command is not sent.
Announce(c) ==
    /\ stage[c] \in {"QUEUED", "EXECUTING"}
    /\ \/ /\ at[c] = "raised"
          /\ stage' = [stage EXCEPT ![c] = "over"]
          /\ at' = [at EXCEPT ![c] = "idle"] /\ UNCHANGED arg
       \/ /\ at[c] = "returned" /\ stage[c] = "QUEUED"
          /\ stage' = [stage EXCEPT ![c] = "EXECUTING"]
          /\ Answer(c, "EXECUTING")
       \/ /\ at[c] = "returned" /\ stage[c] = "EXECUTING"
          /\ stage' = [stage EXCEPT ![c] = "sending"]
          /\ UNCHANGED <<at, arg>>
    /\ UNCHANGED <<conn, box, topics, tally, result, reports>>

\* engine.send returns and the result is answered.
Send(c) ==
    /\ stage[c] = "sending"
    /\ \E r \in {"OK", "notOK"} :
          /\ result' = [result EXCEPT ![c] = r]
          /\ stage' = [stage EXCEPT ![c] = IF r = "OK" THEN "SUCCESS" ELSE "ERROR"]
          /\ Answer(c, IF r = "OK" THEN "SUCCESS" ELSE "ERROR")
    /\ UNCHANGED <<conn, box, topics, tally, reports>>

\* Variant: the except clause runs after an answer that was accepted too.
FinishTwice(c) ==
    /\ at[c] \in {"returned", "raised"}
    /\ \/ /\ stage[c] \in {"SUCCESS", "ERROR"}
          /\ stage' = [stage EXCEPT ![c] = "EXCEPTION"]
          /\ Answer(c, "EXCEPTION")
       \/ /\ stage[c] = "EXCEPTION"
          /\ stage' = [stage EXCEPT ![c] = "over"]
          /\ at' = [at EXCEPT ![c] = "idle"] /\ UNCHANGED arg
    /\ UNCHANGED <<conn, box, topics, tally, result, reports>>

\* A queue.Full out of the answer is caught and answered with an ERROR; one
\* out of that answer ends the thread.
Finish(c) ==
    /\ at[c] \in {"returned", "raised"}
    /\ \/ /\ at[c] = "raised" /\ stage[c] \in {"SUCCESS", "ERROR"}
          /\ stage' = [stage EXCEPT ![c] = "EXCEPTION"]
          /\ Answer(c, "EXCEPTION")
       \/ /\ stage[c] = "EXCEPTION" \/ (at[c] = "returned" /\ stage[c] \in {"SUCCESS", "ERROR"})
          /\ stage' = [stage EXCEPT ![c] = "over"]
          /\ at' = [at EXCEPT ![c] = "idle"] /\ UNCHANGED arg
    /\ UNCHANGED <<conn, box, topics, tally, result, reports>>

\* job_state; the job layer goes on when publish raises.
ReportJob ==
    /\ dial # "off" /\ reports < NumReports
    /\ at[JobReporter] \in {"idle", "returned", "raised"}
    /\ reports' = reports + 1
    /\ Publish(JobReporter, reports')
    /\ UNCHANGED <<conn, box, topics, tally, stage, result>>

EndReports ==
    /\ reports = NumReports /\ at[JobReporter] \in {"returned", "raised"}
    /\ at' = [at EXCEPT ![JobReporter] = "idle"]
    /\ UNCHANGED <<conn, box, arg, topics, tally, routerVars>>

CommandThread(c) == Announce(c) \/ Send(c) \/ Finish(c)

Next ==
    \/ \E c \in Commands : CommandThread(c) \/ \E raw \in Payloads : HandleCommand(c, raw)
    \/ ReportJob \/ EndReports
    \/ MqttNext /\ UNCHANGED routerVars

Spec == Init /\ [][Next]_vars

\* Every thread goes on, and so does paho: it dials, connects and calls back.
\* Nothing says that the network holds, or that commands arrive.
Fairness ==
    /\ \A c \in Commands : WF_vars(CommandThread(c))
    /\ \A p \in Publishers : WF_vars(PublishNext(p) /\ UNCHANGED routerVars)
    /\ WF_vars(ReportJob) /\ WF_vars(EndReports)
    /\ WF_vars(DrainNext /\ UNCHANGED routerVars)
    /\ WF_vars(DialNext /\ UNCHANGED routerVars)
    /\ WF_vars((OnConnect \/ OnDisconnect) /\ UNCHANGED routerVars)

FairSpec == Spec /\ Fairness

-----------------------------------------------------------------------------
(* Properties.                                                             *)

\* The domains of the variables.
TypeOK ==
    /\ MqttTypeOK
    /\ stage \in [Commands -> {"unborn", "refused", "QUEUED", "EXECUTING", "sending",
                               "SUCCESS", "ERROR", "EXCEPTION", "over"}]
    /\ result \in [Commands -> {"none", "OK", "notOK"}]
    /\ reports \in 0..NumReports

\* What the cloud hears, or will hear, of the end of a command is true and
\* is one thing: SUCCESS only of a command the engine ended with OK, ERROR
\* of such a command only when the SUCCESS was refused, never two ends.
AnswersTrue ==
    \A c \in Commands :
      LET ends == {w \in {"SUCCESS", "ERROR", "EXCEPTION"} :
                      Said(c, w) \in given \cup Waiting}
      IN /\ "SUCCESS" \in ends => result[c] = "OK"
         /\ "ERROR" \in ends => result[c] = "notOK"
         /\ "EXCEPTION" \in ends => \E w \in {"SUCCESS", "ERROR"} : Said(c, w) \in lost
         /\ Cardinality(ends) <= 1

\* The messages of one publisher reach paho in the order of its calls,
\* buffered or not, whatever the other publishers and lost connections do,
\* unless the connection came up in the midst of them: then a message that
\* goes straight to paho overtakes those the drain thread has not reached.
OrderedUnlessCrossed == swapped \subseteq crossed

\* publish and the drain thread together are the bounded, lossy channel of
\* Uplink; the message the drain thread holds is the oldest of the backlog.
Backlog == (IF held = NoMessage THEN <<>> ELSE <<held>>) \o outbox
U == INSTANCE Uplink WITH backlog <- Backlog
ImplementsUplink == U!Spec

\* While the connection lasts, a command is answered to the end and the
\* answer is given to paho, unless a message was lost to a full outbox.
AnsweredUnlessFull ==
    <>[](connected /\ ~stopping) =>
       \A c \in Commands : stage[c] = "QUEUED"
             ~> (lost # {} \/ \E w \in {"SUCCESS", "ERROR"} : Said(c, w) \in given)
=============================================================================
