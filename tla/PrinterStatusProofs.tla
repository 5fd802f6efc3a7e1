------------------------ MODULE PrinterStatusProofs ------------------------
(***************************************************************************)
(* Proofs about PrinterStatus, for any number of jobs, control messages    *)
(* and lost connections.                                                   *)
(***************************************************************************)
EXTENDS PrinterStatus, SequenceTheorems, TLAPS

-----------------------------------------------------------------------------
(* What the two arguments need of the types.                               *)

Shape ==
    /\ state \in Snapshots
    /\ copy \in [Threads -> Snapshots]
    /\ DOMAIN pc = Threads
    /\ lateOffline \in 0..2

\* Where the handler is about to report, and where it is once it has marked
\* the status.
Firing == {"pauseFire", "pauseForced", "cancelFire", "cancelForced"}
Marked == Firing \cup {"pauseForce", "cancelForce"}

\* Only the heartbeat's copy may say UNKNOWN once the status does not, and
\* only until it has been reported.
OfflineInv ==
    /\ Shape
    /\ state.status \in {"UNKNOWN", "IDLE", "PAUSED"}
    /\ \A t \in Threads : copy[t].status \in {"UNKNOWN", "IDLE", "PAUSED"}
    /\ pc["telemetry"] = "fire" => copy["telemetry"].status # "UNKNOWN"
    /\ pc["network"] \in Firing => copy["network"].status # "UNKNOWN"
    /\ pc["network"] \in Marked => state.status # "UNKNOWN"
    /\ lateOffline > 0 => /\ state.status # "UNKNOWN"
                          /\ pc["heartbeat"] = "fire" => copy["heartbeat"].status # "UNKNOWN"
    /\ lateOffline <= 1

\* From the first of the two reads on, a job in the slot took it since then.
IdleInv ==
    /\ DOMAIN pc = Threads
    /\ pc["network"] \in {"readQueue", "cancelMark"} /\ slot # NoJob => slot \in tookSlot

-----------------------------------------------------------------------------
(* The cancel handler's claim that the printer is idle.                    *)

\* The two unlocked reads: the claim is never about a job that was running
\* when the cancel returned.
THEOREM IdleClaimTheorem == Spec => []IdleClaimRecent
<1> USE DEF telemetry, jobs, cloud, Threads
<1>1. Init => IdleInv
  BY DEF Init, IdleInv
<1>2. IdleInv /\ [Next]_vars => IdleInv'
  <2> SUFFICES ASSUME IdleInv, [Next]_vars PROVE IdleInv'
    OBVIOUS
  <2>1. CASE UNCHANGED vars
    BY <2>1 DEF vars, IdleInv
  <2>2. ASSUME NEW line \in Lines, HearLine(line) PROVE IdleInv'
    BY <2>2 DEF IdleInv, HearLine
  <2>3. CASE HearGarbled
    BY <2>3 DEF IdleInv, HearGarbled
  <2>4. ASSUME NEW j \in Jobs, HandlePause(j) PROVE IdleInv'
    BY <2>4 DEF IdleInv, HandlePause
  <2>5. ASSUME NEW j \in Jobs, HandleCancel(j) PROVE IdleInv'
    BY <2>5 DEF IdleInv, HandleCancel
  <2>6. CASE TelemetryNext
    BY <2>6 DEF IdleInv, TelemetryNext, EndLine, CheckIdle, IdleTimeout, TelemetryReports,
                Update, GetSnapshot, Report
  <2>7. CASE ReadActive
    BY <2>7 DEF IdleInv, ReadActive
  <2>8. CASE ReadQueue
    BY <2>8 DEF IdleInv, ReadQueue
  <2>9. CASE PauseMark \/ CancelMark \/ SuppressPrinting
    BY <2>9 DEF IdleInv, PauseMark, CancelMark, SuppressPrinting, Update
  <2>10. ASSUME NEW now, NEW then, then \notin {"readQueue", "cancelMark"},
                NetworkReports(now, then) \/ NetworkLooks(now, then)
         PROVE  IdleInv'
    BY <2>10 DEF IdleInv, NetworkReports, NetworkLooks, Report, GetSnapshot
  <2>11. CASE HandlerNext
    <3> HIDE DEF telemetry, jobs, cloud, Threads
    <3> QED  BY <2>7, <2>8, <2>9, <2>10, <2>11 DEF HandlerNext
  <2>12. CASE HeartbeatNext
    BY <2>12 DEF IdleInv, HeartbeatNext, Beat, BeatReports, Report, GetSnapshot
  <2>13. CASE SubmitJob
    BY <2>13 DEF IdleInv, SubmitJob
  <2>14. CASE FinishJob
    BY <2>14 DEF IdleInv, FinishJob
  <2>15. CASE HandOver
    BY <2>15 DEF IdleInv, HandOver
  <2>16. CASE QuietEnds \/ Outage
    BY <2>16 DEF IdleInv, QuietEnds, Outage
  <2> QED
    BY <2>1, <2>2, <2>3, <2>4, <2>5, <2>6, <2>11, <2>12, <2>13, <2>14, <2>15, <2>16
       DEF Next, JobsNext
<1>3. IdleInv => IdleClaimRecent
  BY DEF IdleInv, IdleClaimRecent
<1> QED  BY <1>1, <1>2, <1>3, PTL DEF Spec

-----------------------------------------------------------------------------
(* The reports of an unknown printer.                                      *)

\* Each of the three snapshot holders, one after the other: only the
\* heartbeat's copy can be older than the status, so that at most one more
\* OFFLINE is reported once the status is known.
THEOREM OfflineTheorem == Spec => []OfflineOnceMore
<1> USE DEF telemetry, jobs, cloud, Threads, Shape, Firing, Marked
<1>1. Init => OfflineInv
  BY DEF Init, OfflineInv, Unread, Snapshots, Statuses, Temps
<1>2. OfflineInv /\ [Next]_vars => OfflineInv'
  <2> SUFFICES ASSUME OfflineInv, [Next]_vars PROVE OfflineInv'
    OBVIOUS
  <2>1. CASE UNCHANGED vars
    BY <2>1 DEF vars, OfflineInv
  <2>2. ASSUME NEW line \in Lines, HearLine(line) PROVE OfflineInv'
    BY <2>2 DEF OfflineInv, HearLine
  <2>3. CASE HearGarbled \/ EndLine \/ QuietEnds
    BY <2>3 DEF OfflineInv, HearGarbled, EndLine, QuietEnds
  <2>4. ASSUME NEW j \in Jobs, HandlePause(j) PROVE OfflineInv'
    BY <2>4 DEF OfflineInv, HandlePause
  <2>5. ASSUME NEW j \in Jobs, HandleCancel(j) PROVE OfflineInv'
    BY <2>5 DEF OfflineInv, HandleCancel
  <2>6. CASE CheckIdle
    BY <2>6 DEF OfflineInv, CheckIdle, GetSnapshot
  <2>7. CASE IdleTimeout
    BY <2>7 DEF OfflineInv, IdleTimeout, Update, SetStatus, Snapshots, Statuses
  <2>8. CASE TelemetryReports
    BY <2>8 DEF OfflineInv, TelemetryReports, Report, StatusMap
  <2>9. CASE ReadActive \/ ReadQueue \/ SuppressPrinting
    BY <2>9 DEF OfflineInv, ReadActive, ReadQueue, SuppressPrinting
  <2>10. CASE PauseMark \/ CancelMark
    BY <2>10 DEF OfflineInv, PauseMark, CancelMark, Update, SetStatus, Snapshots, Statuses
  <2>11. ASSUME NEW now \in Firing,
                NEW then \in {"pauseForce", "cancelForce", "idle", "suppress"},
                NetworkReports(now, then)
         PROVE  OfflineInv'
    BY <2>11 DEF OfflineInv, NetworkReports, Report, StatusMap
  <2>12. ASSUME NEW now \in {"pauseForce", "cancelForce"}, NEW then \in Firing,
                NetworkLooks(now, then)
         PROVE  OfflineInv'
    BY <2>12 DEF OfflineInv, NetworkLooks, GetSnapshot
  <2>13. CASE HandlerNext
    BY <2>9, <2>10, <2>11, <2>12, <2>13 DEF HandlerNext
  <2>14. CASE Beat
    BY <2>14 DEF OfflineInv, Beat, GetSnapshot
  <2>15. CASE BeatReports
    BY <2>15 DEF OfflineInv, BeatReports, Report, StatusMap
  <2>16. CASE JobsNext
    BY <2>16 DEF OfflineInv, JobsNext, SubmitJob, FinishJob, HandOver
  <2>17. CASE Outage
    BY <2>17 DEF OfflineInv, Outage
  <2> QED
    BY <2>1, <2>2, <2>3, <2>4, <2>5, <2>6, <2>7, <2>8, <2>13, <2>14, <2>15, <2>16, <2>17
       DEF Next, TelemetryNext, HeartbeatNext
<1>3. OfflineInv => OfflineOnceMore
  BY DEF OfflineInv, OfflineOnceMore
<1> QED  BY <1>1, <1>2, <1>3, PTL DEF Spec

-----------------------------------------------------------------------------
(* The domains of the variables.                                           *)

NetworkPoints == {"idle", "pauseMark", "pauseFire", "pauseForce", "pauseForced", "readActive",
                  "readQueue", "cancelMark", "cancelFire", "cancelForce", "cancelForced", "suppress"}

Points(t) == CASE t = "telemetry" -> {"idle", "parsed", "checked", "fire", "over"}
               [] t = "network"   -> NetworkPoints
               [] t = "heartbeat" -> {"idle", "fire"}

AllPoints == NetworkPoints \cup {"parsed", "checked", "fire", "over"}

\* The values that StateManager, the telemetry thread and the reports write.
StatusTypes ==
    /\ state \in Snapshots /\ copy \in [Threads -> Snapshots]
    /\ updates \in [status : Statuses \cup {"keep"}, temp : Temps \cup {"keep"}]
    /\ heardLine \in BOOLEAN /\ quiet \in BOOLEAN

\* Where the threads may stand; TypeOK leaves pc's domain open.
PlaceTypes == pc \in [Threads -> AllPoints] /\ \A t \in Threads : pc[t] \in Points(t)

JobTypes ==
    /\ handing \in BOOLEAN
    /\ slot \in Jobs \cup {NoJob} /\ queue \in Seq(Jobs) /\ served \in 0..NumJobs
    /\ tookSlot \subseteq Jobs

CloudTypes ==
    /\ online \in BOOLEAN /\ calls \in 0..MaxCalls /\ outages \in 0..MaxOutages
    /\ reported \in Reports \cup {"none"} /\ lateOffline \in 0..2

\* The four parts are what TypeOK says, and pc's domain.
LEMMA TypeParts == StatusTypes /\ PlaceTypes /\ JobTypes /\ CloudTypes => TypeOK
BY DEF StatusTypes, PlaceTypes, JobTypes, CloudTypes, TypeOK, Points, NetworkPoints, Threads

\* A line may call for a status, or for none: the last test that holds does.
LEMMA CalledForType ==
  ASSUME NEW line \in Lines, NEW now
  PROVE  StatusCalledFor(line, now) \in Statuses \cup {"keep"}
<1> DEFINE tests ==
             << [holds |-> "reboot" \in line,                     to |-> "REBOOTING"],
                [holds |-> "temp" \in line /\ now \in {"UNKNOWN", "REBOOTING"},
                                                                 to |-> "IDLE"],
                [holds |-> "sdProgress" \in line /\ ~quiet,       to |-> "PRINTING"],
                [holds |-> "sdDone" \in line,                     to |-> "IDLE"],
                [holds |-> "pause" \in line,                      to |-> "PAUSED"],
                [holds |-> "resume" \in line /\ ~quiet,           to |-> "PRINTING"] >>
           held == {k \in DOMAIN tests : tests[k].holds}
<1>1. \A k \in 1..6 : tests[k].to \in Statuses
  <2>1. /\ tests[1].to = "REBOOTING" /\ tests[2].to = "IDLE" /\ tests[3].to = "PRINTING"
        /\ tests[4].to = "IDLE" /\ tests[5].to = "PAUSED" /\ tests[6].to = "PRINTING"
    OBVIOUS
  <2> HIDE DEF tests
  <2> QED  BY <2>1 DEF Statuses
<1>2. DOMAIN tests = 1..6
  OBVIOUS
<1>3. held \subseteq 1..6
  BY <1>2
<1>4. StatusCalledFor(line, now) = IF held = {} THEN "keep" ELSE tests[Max(held)].to
  BY DEF StatusCalledFor
<1> HIDE DEF tests, held
<1>5. ASSUME held # {} PROVE Max(held) \in 1..6
  <2>1. \E x \in held : \A y \in held : x >= y
    <3>1. CASE 6 \in held
      BY <1>3, <3>1
    <3>2. CASE 6 \notin held /\ 5 \in held
      BY <1>3, <3>2
    <3>3. CASE held \cap {5, 6} = {} /\ 4 \in held
      BY <1>3, <3>3
    <3>4. CASE held \cap {4, 5, 6} = {} /\ 3 \in held
      BY <1>3, <3>4
    <3>5. CASE held \cap {3, 4, 5, 6} = {} /\ 2 \in held
      BY <1>3, <3>5
    <3>6. CASE held \cap {2, 3, 4, 5, 6} = {}
      <4>1. \A y \in held : y = 1
        BY <1>3, <3>6
      <4> QED  BY <1>5, <4>1
    <3> QED  BY <3>1, <3>2, <3>3, <3>4, <3>5, <3>6
  <2>2. Max(held) \in held
    BY <2>1 DEF Max
  <2> QED  BY <1>3, <2>2
<1> QED  BY <1>1, <1>4, <1>5

\* A job taken out of the middle of the queue leaves a queue of jobs.
LEMMA RemoveAtType ==
  ASSUME NEW S, NEW s \in Seq(S), NEW n \in DOMAIN s
  PROVE  RemoveAt(s, n) \in Seq(S)
<1>1. n \in 1..Len(s) /\ Len(s) \in Nat
  BY LenProperties
<1>2. SubSeq(s, 1, n - 1) \in Seq(S) /\ SubSeq(s, n + 1, Len(s)) \in Seq(S)
  BY <1>1, SubSeqProperties
<1> QED  BY <1>2, ConcatProperties DEF RemoveAt

\* A thread goes on to one of its points.
LEMMA MoveType ==
  ASSUME PlaceTypes, NEW t \in Threads, NEW p \in Points(t), pc' = [pc EXCEPT ![t] = p]
  PROVE  PlaceTypes'
<1>1. Points(t) \subseteq AllPoints
  BY DEF Points, AllPoints, NetworkPoints, Threads
<1> QED  BY <1>1 DEF PlaceTypes

\* What update() writes, copies and goes on to.
LEMMA UpdateType ==
  ASSUME StatusTypes, PlaceTypes, NEW t \in Threads,
         NEW s \in Statuses, NEW changed \in Points(t), NEW unchanged \in Points(t),
         Update(t, SetStatus(s), changed, unchanged)
  PROVE  state' \in Snapshots /\ copy' \in [Threads -> Snapshots] /\ PlaceTypes'
<1>1. s # "keep"
  BY DEF Statuses
<1>2. state' = [status |-> s, temp |-> state.temp]
  BY <1>1 DEF Update, SetStatus
<1>3. state' \in Snapshots
  BY <1>2 DEF StatusTypes, Snapshots
<1>4. copy' = [copy EXCEPT ![t] = state']
  BY DEF Update
<1>5. PlaceTypes'
  BY MoveType DEF Update
<1> QED  BY <1>3, <1>4, <1>5 DEF StatusTypes

\* What a report writes.
LEMMA ReportType ==
  ASSUME StatusTypes, CloudTypes, NEW t \in Threads, Report(t)
  PROVE  reported' \in Reports /\ lateOffline' \in 0..2
<1>1. copy[t].status \in Statuses
  BY DEF StatusTypes, Snapshots
<1>2. \A s \in Statuses : StatusMap(s) \in Reports
  BY DEF Statuses, StatusMap, Reports
<1>3. reported' \in Reports
  BY <1>1, <1>2 DEF Report
<1>4. lateOffline' \in 0..2
  BY DEF Report, CloudTypes
<1> QED  BY <1>3, <1>4

\* The state, the copies and what the telemetry thread collects.
LEMMA StatusStep ==
  ASSUME StatusTypes, PlaceTypes, [Next]_vars
  PROVE  StatusTypes'
<1> USE DEF telemetry, jobs, cloud, Threads
<1>1. CASE UNCHANGED vars
  BY <1>1 DEF vars, StatusTypes
<1>2. ASSUME NEW line \in Lines, HearLine(line) PROVE StatusTypes'
  <2>1. updates' \in [status : Statuses \cup {"keep"}, temp : Temps \cup {"keep"}]
    BY <1>2, CalledForType DEF HearLine, Temps
  <2> QED  BY <1>2, <2>1 DEF HearLine, StatusTypes
<1>3. CASE HearGarbled \/ EndLine \/ QuietEnds \/ SuppressPrinting
  <2>1. CASE EndLine
    BY <2>1 DEF EndLine, Keep, StatusTypes
  <2>2. CASE HearGarbled \/ QuietEnds \/ SuppressPrinting
    BY <2>2 DEF HearGarbled, QuietEnds, SuppressPrinting, StatusTypes
  <2> QED  BY <1>3, <2>1, <2>2
<1>4. ASSUME NEW j \in Jobs, HandlePause(j) \/ HandleCancel(j) PROVE StatusTypes'
  BY <1>4 DEF HandlePause, HandleCancel, StatusTypes
<1>5. CASE CheckIdle \/ Beat
  BY <1>5 DEF CheckIdle, Beat, GetSnapshot, StatusTypes
<1>6. CASE IdleTimeout
  <2>1. CASE UNCHANGED <<state, copy>>
    BY <1>6, <2>1 DEF IdleTimeout, StatusTypes
  <2>2. CASE Update("telemetry", SetStatus("IDLE"), "fire", "idle")
    <3>1. state' \in Snapshots /\ copy' \in [Threads -> Snapshots]
      BY <2>2, UpdateType DEF Points, Statuses
    <3> QED  BY <1>6, <3>1 DEF IdleTimeout, StatusTypes
  <2> QED  BY <1>6, <2>1, <2>2 DEF IdleTimeout
<1>7. CASE PauseMark \/ CancelMark
  <2>1. state' \in Snapshots /\ copy' \in [Threads -> Snapshots]
    <3>1. CASE PauseMark
      BY <3>1, UpdateType DEF PauseMark, Points, NetworkPoints, Statuses
    <3>2. CASE CancelMark
      BY <3>2, UpdateType DEF CancelMark, Points, NetworkPoints, Statuses
    <3> QED  BY <1>7, <3>1, <3>2
  <2> QED  BY <1>7, <2>1 DEF PauseMark, CancelMark, StatusTypes
<1>8. CASE ReadActive \/ ReadQueue \/ TelemetryReports \/ BeatReports
  BY <1>8 DEF ReadActive, ReadQueue, TelemetryReports, BeatReports, StatusTypes
<1>9. ASSUME NEW now, NEW then, NetworkReports(now, then) \/ NetworkLooks(now, then)
      PROVE  StatusTypes'
  BY <1>9 DEF NetworkReports, NetworkLooks, GetSnapshot, StatusTypes
<1>10. CASE JobsNext \/ Outage
  BY <1>10 DEF JobsNext, SubmitJob, FinishJob, HandOver, Outage, StatusTypes
<1> QED
  BY <1>1, <1>2, <1>3, <1>4, <1>5, <1>6, <1>7, <1>8, <1>9, <1>10
     DEF Next, TelemetryNext, HandlerNext, HeartbeatNext

\* Where the threads stand.
LEMMA PlaceStep ==
  ASSUME StatusTypes, PlaceTypes, [Next]_vars
  PROVE  PlaceTypes'
<1> USE DEF telemetry, jobs, cloud
<1>0. /\ {"idle", "parsed", "checked", "fire", "over"} \subseteq Points("telemetry")
      /\ {"idle", "fire"} \subseteq Points("heartbeat")
      /\ NetworkPoints \subseteq Points("network")
      /\ {"telemetry", "network", "heartbeat"} \subseteq Threads
  BY DEF Points, Threads
<1>a. ASSUME NEW t \in Threads, NEW p \in Points(t), pc' = [pc EXCEPT ![t] = p]
      PROVE  PlaceTypes'
  BY <1>a, MoveType
<1>1. CASE UNCHANGED vars
  BY <1>1 DEF vars, PlaceTypes
<1>2. ASSUME NEW line \in Lines, HearLine(line) PROVE PlaceTypes'
  BY <1>0, <1>2, <1>a DEF HearLine
<1>3. CASE HearGarbled \/ EndLine \/ CheckIdle \/ TelemetryReports
  BY <1>0, <1>3, <1>a DEF HearGarbled, EndLine, CheckIdle, TelemetryReports
<1>4. ASSUME NEW j \in Jobs, HandlePause(j) \/ HandleCancel(j) PROVE PlaceTypes'
  <2>1. PICK p \in NetworkPoints : pc' = [pc EXCEPT !["network"] = p]
    BY <1>4 DEF HandlePause, HandleCancel, NetworkPoints
  <2> QED  BY <1>0, <2>1, <1>a
<1>5. CASE IdleTimeout
  <2>1. CASE pc' = [pc EXCEPT !["telemetry"] = "idle"]
    BY <1>0, <2>1, <1>a
  <2>2. CASE Update("telemetry", SetStatus("IDLE"), "fire", "idle")
    BY <1>0, <2>2, UpdateType DEF Statuses
  <2> QED  BY <1>5, <2>1, <2>2 DEF IdleTimeout
<1>6. CASE PauseMark \/ CancelMark
  <2>1. CASE PauseMark
    BY <1>0, <2>1, UpdateType DEF PauseMark, NetworkPoints, Statuses
  <2>2. CASE CancelMark
    BY <1>0, <2>2, UpdateType DEF CancelMark, NetworkPoints, Statuses
  <2> QED  BY <1>6, <2>1, <2>2
<1>7. CASE ReadActive \/ ReadQueue \/ SuppressPrinting
  <2>1. PICK p \in NetworkPoints : pc' = [pc EXCEPT !["network"] = p]
    BY <1>7 DEF ReadActive, ReadQueue, SuppressPrinting, NetworkPoints
  <2> QED  BY <1>0, <2>1, <1>a
<1>8. ASSUME NEW now, NEW then \in NetworkPoints,
             NetworkReports(now, then) \/ NetworkLooks(now, then)
      PROVE  PlaceTypes'
  BY <1>0, <1>8, <1>a DEF NetworkReports, NetworkLooks
<1>9. CASE Beat \/ BeatReports
  BY <1>0, <1>9, <1>a DEF Beat, BeatReports
<1>10. CASE JobsNext \/ Outage \/ QuietEnds
  BY <1>10 DEF JobsNext, SubmitJob, FinishJob, HandOver, Outage, QuietEnds, PlaceTypes
<1>11. CASE HandlerNext
  BY <1>6, <1>7, <1>8, <1>11 DEF HandlerNext, NetworkPoints
<1> QED
  BY <1>1, <1>2, <1>3, <1>4, <1>5, <1>9, <1>10, <1>11 DEF Next, TelemetryNext, HeartbeatNext

\* The manager's slot and queue hold jobs that were submitted.
LEMMA JobStep ==
  ASSUME JobTypes, [Next]_vars
  PROVE  JobTypes'
<1> USE DEF telemetry, jobs, cloud
<1>1. CASE UNCHANGED <<jobs, tookSlot>>
  BY <1>1 DEF JobTypes
<1>2. ASSUME NEW j \in Jobs, HandleCancel(j) PROVE JobTypes'
  <2>1. queue' \in Seq(Jobs)
    <3>1. queue \in Seq(Jobs)
      BY DEF JobTypes
    <3>2. UNCHANGED queue \/ \E n \in DOMAIN queue : queue' = RemoveAt(queue, n)
      BY <1>2 DEF HandleCancel
    <3> QED  BY <3>1, <3>2, RemoveAtType
  <2> QED  BY <1>2, <2>1 DEF HandleCancel, JobTypes
<1>3. CASE ReadActive
  BY <1>3 DEF ReadActive, JobTypes
<1>4. CASE SubmitJob
  <2>1. served' \in Jobs /\ served' \in 0..NumJobs
    BY <1>4, BoundsAssumption DEF SubmitJob, JobTypes, Jobs
  <2>2. queue' \in Seq(Jobs)
    <3>1. queue \in Seq(Jobs)
      BY DEF JobTypes
    <3>2. queue' = queue \/ queue' = Append(queue, served')
      BY <1>4 DEF SubmitJob
    <3> QED  BY <2>1, <3>1, <3>2, AppendProperties
  <2> QED  BY <1>4, <2>1, <2>2 DEF SubmitJob, JobTypes
<1>5. CASE FinishJob
  BY <1>5 DEF FinishJob, JobTypes
<1>6. CASE HandOver
  <2>1. CASE queue = <<>>
    BY <1>6, <2>1 DEF HandOver, JobTypes
  <2>2. CASE queue # <<>>
    <3>1. Head(queue) \in Jobs /\ Tail(queue) \in Seq(Jobs)
      BY <2>2, HeadTailProperties DEF JobTypes
    <3> QED  BY <1>6, <2>2, <3>1 DEF HandOver, JobTypes
  <2> QED  BY <2>1, <2>2
<1>7. ASSUME NEW line \in Lines, HearLine(line) PROVE JobTypes'
  BY <1>7, <1>1 DEF HearLine
<1>8. ASSUME NEW j \in Jobs, HandlePause(j) PROVE JobTypes'
  BY <1>8, <1>1 DEF HandlePause
<1>9. CASE HearGarbled \/ TelemetryNext \/ HeartbeatNext \/ QuietEnds \/ Outage
  <2>1. UNCHANGED <<jobs, tookSlot>>
    BY <1>9 DEF HearGarbled, TelemetryNext, EndLine, CheckIdle, IdleTimeout, TelemetryReports,
                HeartbeatNext, Beat, BeatReports, QuietEnds, Outage
  <2> QED  BY <1>1, <2>1
<1>10. CASE HandlerNext
  <2>1. ReadActive \/ UNCHANGED <<jobs, tookSlot>>
    BY <1>10 DEF HandlerNext, PauseMark, ReadQueue, CancelMark, SuppressPrinting, NetworkReports,
                 NetworkLooks
  <2> QED  BY <1>1, <1>3, <2>1
<1>11. CASE UNCHANGED vars
  BY <1>1, <1>11 DEF vars
<1> QED
  BY <1>2, <1>4, <1>5, <1>6, <1>7, <1>8, <1>9, <1>10, <1>11 DEF Next, JobsNext

\* What was reported, and the bounds.
LEMMA CloudStep ==
  ASSUME StatusTypes, CloudTypes, [Next]_vars
  PROVE  CloudTypes'
<1> USE DEF telemetry, jobs, cloud
<1>1. CASE UNCHANGED <<cloud, calls>>
  BY <1>1 DEF CloudTypes
<1>2. ASSUME NEW t \in Threads, Report(t), UNCHANGED <<calls, online, outages>>
      PROVE  CloudTypes'
  BY <1>2, ReportType DEF CloudTypes
<1>3. {"telemetry", "network", "heartbeat"} \subseteq Threads
  BY DEF Threads
<1>4. ASSUME NEW j \in Jobs, HandlePause(j) \/ HandleCancel(j) PROVE CloudTypes'
  BY <1>4, BoundsAssumption DEF HandlePause, HandleCancel, CloudTypes
<1>5. CASE Outage
  BY <1>5, BoundsAssumption DEF Outage, CloudTypes
<1>6. CASE TelemetryReports
  BY <1>2, <1>3, <1>6 DEF TelemetryReports
<1>7. CASE BeatReports
  BY <1>2, <1>3, <1>7 DEF BeatReports
<1>8. ASSUME NEW now, NEW then, NetworkReports(now, then) PROVE CloudTypes'
  BY <1>2, <1>3, <1>8 DEF NetworkReports
<1>9. ASSUME NEW now, NEW then, NetworkLooks(now, then) PROVE CloudTypes'
  BY <1>1, <1>9 DEF NetworkLooks
<1>10. CASE HandlerNext
  <2>1. CASE PauseMark \/ ReadActive \/ ReadQueue \/ CancelMark \/ SuppressPrinting
    BY <1>1, <2>1 DEF PauseMark, ReadActive, ReadQueue, CancelMark, SuppressPrinting
  <2> QED  BY <1>8, <1>9, <1>10, <2>1 DEF HandlerNext
<1>11. ASSUME NEW line \in Lines, HearLine(line) PROVE CloudTypes'
  BY <1>1, <1>11 DEF HearLine
<1>12. CASE HearGarbled \/ EndLine \/ CheckIdle \/ IdleTimeout \/ Beat \/ JobsNext \/ QuietEnds
  <2>1. UNCHANGED <<cloud, calls>>
    BY <1>12 DEF HearGarbled, EndLine, CheckIdle, IdleTimeout, Beat, JobsNext, SubmitJob, FinishJob,
                 HandOver, QuietEnds
  <2> QED  BY <1>1, <2>1
<1>13. CASE UNCHANGED vars
  BY <1>1, <1>13 DEF vars
<1> QED
  BY <1>4, <1>5, <1>6, <1>7, <1>10, <1>11, <1>12, <1>13 DEF Next, TelemetryNext, HeartbeatNext

\* The types of all the variables: no thread ever stands at a point its code
\* does not have, and only the four reported states reach the cloud.
THEOREM TypeTheorem == Spec => []TypeOK
<1> DEFINE Types == StatusTypes /\ PlaceTypes /\ JobTypes /\ CloudTypes
<1>1. Init => Types
  <2> SUFFICES ASSUME Init PROVE Types
    OBVIOUS
  <2>1. StatusTypes
    BY DEF Init, StatusTypes, Unread, Keep, Snapshots, Statuses, Temps
  <2>2. PlaceTypes
    BY DEF Init, PlaceTypes, Points, NetworkPoints, AllPoints, Threads
  <2>3. JobTypes
    <3>1. queue \in Seq(Jobs)
      <4>1. <<>> \in Seq(Jobs)
        BY EmptySeq
      <4> QED  BY <4>1 DEF Init
    <3>2. served \in 0..NumJobs
      BY BoundsAssumption DEF Init
    <3>3. handing \in BOOLEAN /\ slot \in Jobs \cup {NoJob} /\ tookSlot \subseteq Jobs
      BY DEF Init
    <3> QED  BY <3>1, <3>2, <3>3 DEF JobTypes
  <2>4. CloudTypes
    BY BoundsAssumption DEF Init, CloudTypes
  <2> QED  BY <2>1, <2>2, <2>3, <2>4
<1>2. Types /\ [Next]_vars => Types'
  BY StatusStep, PlaceStep, JobStep, CloudStep
<1>3. Types => TypeOK
  BY TypeParts
<1> HIDE DEF Types
<1> QED  BY <1>1, <1>2, <1>3, PTL DEF Spec
=============================================================================
