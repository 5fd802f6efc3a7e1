------------------------- MODULE VisionWatchProofs -------------------------
(***************************************************************************)
(* Proofs about VisionWatch, for any number of jobs, samplers and calls    *)
(* and any threshold: whose failures the guard counts, and whom vision     *)
(* fails on them although the guard has no lock.                           *)
(***************************************************************************)
EXTENDS VisionWatch, SequenceTheorems, FiniteSetTheorems, TLAPS

-----------------------------------------------------------------------------
(* The domains of the variables but the guard's.                           *)

JobTypes ==
    /\ status \in [Jobs -> Ended \cup {"NONE", "QUEUED", "PRINTING"}]
    /\ active \in Jobs \cup {NoJob} /\ queue \in Seq(Jobs)
    /\ pc \in [Jobs -> {"none", "begin", "starting", "top", "hold", "fire",
                        "fire_done", "done"}]

EventTypes ==
    /\ pauseEv \in [Jobs -> BOOLEAN] /\ cancelEv \in [Jobs -> BOOLEAN]
    /\ failEv \in [Jobs -> BOOLEAN]
    /\ calls \in 0..MaxCalls

WatchTypes ==
    /\ call \in [Notifier -> {"no", "hear", "print", "start", "leave", "stop", "clear"}]
    /\ current \in Jobs \cup {NoJob} /\ watching \in Jobs \cup {NoJob}
    /\ fjob \in [Samplers -> Jobs \cup {NoJob}]
    /\ cooling \in BOOLEAN

Types == JobTypes /\ EventTypes /\ WatchTypes

\* What only the executors and the control calls write.
LEMMA JobTypesStep ==
  ASSUME JobTypes, [Next]_vars
  PROVE  JobTypes'
<1> USE DEF Ended, Terminal, jobs
<1>0. \A j \in Jobs : Append(queue, j) \in Seq(Jobs)
  BY AppendProperties DEF JobTypes
<1>1. ASSUME UNCHANGED jobs PROVE JobTypes'
  BY <1>1 DEF JobTypes
<1>2. ASSUME NEW j \in Jobs, Submit(j) PROVE JobTypes'
  BY <1>0, <1>2 DEF JobTypes, Submit, Mark, Goto
<1>3. ASSUME NEW j \in Jobs,
             Begin(j) \/ MarkStarted(j) \/ Line(j) \/ LeaveHold(j) \/ LinesOver(j) \/ FailStop(j)
      PROVE  JobTypes'
  <2>1. UNCHANGED <<active, queue>>
    BY <1>3 DEF Begin, MarkStarted, Line, LeaveHold, LinesOver, FailStop
  <2>2. status' \in [Jobs -> Ended \cup {"NONE", "QUEUED", "PRINTING"}]
    BY <1>3 DEF JobTypes, Begin, MarkStarted, Line, LeaveHold, LinesOver, FailStop, MarkAndTell, Mark
  <2>3. pc' \in [Jobs -> {"none", "begin", "starting", "top", "hold", "fire", "fire_done", "done"}]
    BY <1>3 DEF JobTypes, Begin, MarkStarted, Line, LeaveHold, LinesOver, FailStop, MarkAndTell, Goto
  <2> QED  BY <2>1, <2>2, <2>3 DEF JobTypes
<1>4. ASSUME NEW j \in Jobs, Finish(j) PROVE JobTypes'
  <2>1. CASE queue = <<>>
    BY <1>4, <2>1 DEF JobTypes, Finish, Goto
  <2>2. CASE queue # <<>>
    <3>1. Head(queue) \in Jobs /\ Tail(queue) \in Seq(Jobs)
      BY <2>2, HeadTailProperties DEF JobTypes
    <3>2. /\ active' = Head(queue) /\ queue' = Tail(queue) /\ UNCHANGED status
          /\ pc' = [pc EXCEPT ![j] = "done", ![Head(queue)] = "begin"]
      BY <1>4, <2>2 DEF Finish
    <3> QED  BY <3>1, <3>2 DEF JobTypes
  <2> QED  BY <2>1, <2>2
<1>5. ASSUME NEW j \in Jobs, Pause(j) \/ Resume(j) \/ Cancel(j) PROVE JobTypes'
  BY <1>5 DEF JobTypes, Pause, Resume, Cancel, Mark
<1>6. ASSUME NEW n \in Notifier, Listen(n) PROVE UNCHANGED jobs
  BY <1>6 DEF Listen, Hear, TakeOn, StartCall, Leave, StopCall, ClearCurrent
<1>7. ASSUME NEW s \in Samplers, Dispatched(s) PROVE UNCHANGED jobs
  BY <1>7 DEF Dispatched, ReadJob, Evaluate, Compare, CheckCooldown, Intervene, DecisionLost,
              FailJob, StopAfterFail
<1>8. Tick \/ CooldownOver => UNCHANGED jobs
  BY DEF Tick, CooldownOver
<1>9. UNCHANGED vars => UNCHANGED jobs
  BY DEF vars
<1> QED
  BY <1>1, <1>2, <1>3, <1>4, <1>5, <1>6, <1>7, <1>8, <1>9 DEF Next, Stream, Control

\* The Events, which vision sets as well.
LEMMA EventTypesStep ==
  ASSUME EventTypes, [Next]_vars
  PROVE  EventTypes'
<1> USE DEF evs
<1>1. ASSUME UNCHANGED <<evs, calls>> PROVE EventTypes'
  BY <1>1 DEF EventTypes
<1>2. ASSUME NEW j \in Jobs, Stream(j) PROVE EventTypes'
  BY <1>2 DEF EventTypes, Stream, Begin, MarkStarted, Line, LeaveHold, LinesOver, FailStop, Finish
<1>3. ASSUME NEW j \in Jobs, Control(j) PROVE EventTypes'
  <2>1. calls' \in 0..MaxCalls
    BY <1>3, CallsAssumption DEF EventTypes, Control, Submit, Pause, Resume, Cancel, Counts
  <2>2. /\ pauseEv' \in [Jobs -> BOOLEAN] /\ cancelEv' \in [Jobs -> BOOLEAN]
        /\ failEv' \in [Jobs -> BOOLEAN]
    BY <1>3 DEF EventTypes, Control, Submit, Pause, Resume, Cancel
  <2> QED  BY <2>1, <2>2 DEF EventTypes
<1>4. ASSUME NEW n \in Notifier, Listen(n) PROVE UNCHANGED <<evs, calls>>
  BY <1>4 DEF Listen, Hear, TakeOn, StartCall, Leave, StopCall, ClearCurrent
<1>5. ASSUME NEW s \in Samplers, Dispatched(s) PROVE EventTypes'
  <2>1. CASE FailJob(s)
    BY <2>1 DEF EventTypes, FailJob
  <2>2. CASE ~FailJob(s)
    BY <1>1, <1>5, <2>2 DEF Dispatched, ReadJob, Evaluate, Compare, CheckCooldown, Intervene,
                DecisionLost, StopAfterFail
  <2> QED  BY <2>1, <2>2
<1>6. Tick \/ CooldownOver => UNCHANGED <<evs, calls>>
  BY DEF Tick, CooldownOver
<1>7. UNCHANGED vars => UNCHANGED <<evs, calls>>
  BY DEF vars
<1> QED  BY <1>1, <1>2, <1>3, <1>4, <1>5, <1>6, <1>7 DEF Next

\* A job in the controller or the monitor is one that was told of.
LEMMA WatchTypesStep ==
  ASSUME JobTypes, WatchTypes, [Next]_vars
  PROVE  WatchTypes'
<1> USE DEF ctrl, camera, threads, guard
<1>0. Jobs \subseteq Notifier /\ Ctl \in Notifier
  BY DEF Notifier
<1>1. ASSUME UNCHANGED <<current, camera, threads, guard>>,
             UNCHANGED call \/ \E n \in Notifier : Tell(n)
      PROVE  WatchTypes'
  BY <1>1 DEF WatchTypes, Tell, Go
<1>2. ASSUME NEW j \in Jobs, Stream(j) PROVE WatchTypes'
  BY <1>0, <1>1, <1>2 DEF Stream, Begin, MarkStarted, Line, LeaveHold, LinesOver, FailStop, Finish,
                          MarkAndTell
<1>3. ASSUME NEW j \in Jobs, Control(j) PROVE WatchTypes'
  BY <1>0, <1>1, <1>3 DEF Control, Submit, Pause, Resume, Cancel
<1>4. ASSUME NEW n \in Notifier, Listen(n) PROVE WatchTypes'
  <2>1. Subject(n) \in Jobs \cup {NoJob}
    BY DEF Subject, JobTypes, Notifier, Ctl, NoJob
  <2>2. CASE Hear(n) \/ TakeOn(n) \/ Leave(n) \/ ClearCurrent(n)
    BY <2>1, <2>2 DEF WatchTypes, Hear, TakeOn, Leave, ClearCurrent, Go
  <2>3. CASE StartCall(n) \/ StopCall(n)
    BY <2>1, <2>3 DEF WatchTypes, StartCall, StartMonitoring, Reset, StopCall, StopMonitoring, Go
  <2> QED  BY <1>4, <2>2, <2>3 DEF Listen
<1>5. ASSUME NEW s \in Samplers, Dispatched(s) PROVE WatchTypes'
  <2>1. UNCHANGED <<call, current>>
    BY <1>5 DEF Dispatched, ReadJob, Evaluate, Compare, CheckCooldown, Intervene, DecisionLost,
                FailJob, StopAfterFail
  <2>2. watching' \in {watching, NoJob}
    BY <1>5 DEF Dispatched, ReadJob, Evaluate, Compare, CheckCooldown, Intervene, DecisionLost,
                FailJob, StopAfterFail, StopMonitoring
  <2>3. cooling' \in {cooling, TRUE}
    BY <1>5 DEF Dispatched, ReadJob, Evaluate, Compare, CheckCooldown, Intervene, DecisionLost,
                FailJob, StopAfterFail
  <2>4. UNCHANGED fjob \/ \E x \in {watching, NoJob} : fjob' = [fjob EXCEPT ![s] = x]
    <3>1. CASE ReadJob(s)
      BY <3>1 DEF ReadJob
    <3>2. CASE ~ReadJob(s)
      <4>1. UNCHANGED fjob \/ fjob' = [fjob EXCEPT ![s] = NoJob]
        BY <1>5, <3>2 DEF Dispatched, Evaluate, Compare, CheckCooldown, Intervene, DecisionLost,
                          FailJob, StopAfterFail, Over, Onward
      <4> QED  BY <4>1
    <3> QED  BY <3>1, <3>2
  <2> QED  BY <2>1, <2>2, <2>3, <2>4 DEF WatchTypes
<1>6. CASE Tick \/ CooldownOver
  BY <1>6 DEF WatchTypes, Tick, CooldownOver
<1>7. CASE UNCHANGED vars
  BY <1>1, <1>7 DEF vars
<1> QED  BY <1>2, <1>3, <1>4, <1>5, <1>6, <1>7 DEF Next

\* Every variable keeps its type.
THEOREM TypesTheorem == Spec => []Types
<1>1. Init => Types
  <2> SUFFICES ASSUME Init PROVE Types
    OBVIOUS
  <2>1. JobTypes
    <3>1. <<>> \in Seq(Jobs)
      BY EmptySeq
    <3> QED  BY <3>1 DEF Init, JobTypes
  <2>2. EventTypes
    BY CallsAssumption DEF Init, EventTypes
  <2>3. WatchTypes
    BY DEF Init, WatchTypes
  <2> QED  BY <2>1, <2>2, <2>3 DEF Types
<1>2. Types /\ [Next]_vars => Types'
  BY JobTypesStep, EventTypesStep, WatchTypesStep DEF Types
<1> QED  BY <1>1, <1>2, PTL DEF Spec

-----------------------------------------------------------------------------
(* The inductive invariant.                                                *)

\* Where a dispatched thread stands, and where it has a job in hand.
Working == {"infer", "counted", "crossed", "cleared", "decided", "stop"}
Steps   == {"idle", "read"} \cup Working

Results == [by : Samplers, of : Jobs]

Shape ==
    /\ fpc \in [Samplers -> Steps]
    /\ sampler \in Samplers
    /\ \A s \in Samplers : fpc[s] \in Working => fjob[s] \in Jobs
    /\ failures \in 0..Threshold
    /\ recent \in Seq(Results) /\ Len(recent) <= Threshold
    /\ grounds \in [Samplers -> 0..Threshold]

\* The history holds at least the failures that are counted.
Backed == failures <= Len(recent)

\* A sampler that was replaced has a result in the history or a thread on the
\* way to one, not both, and none twice.
OneVote ==
    \A s \in Samplers \ {sampler} :
        /\ \A m, n \in DOMAIN recent : recent[m].by = s /\ recent[n].by = s => m = n
        /\ fpc[s] \in {"read", "infer"} => \A n \in DOMAIN recent : recent[n].by # s

GuardInv == Shape /\ Backed /\ OneVote

-----------------------------------------------------------------------------
\* Sequence w is r with x at its end, or that without its first element once
\* r has n.
Appended(w, r, x, n) ==
    /\ Len(w) = Len(r) + 1 \/ (Len(w) = Len(r) /\ Len(w) >= n)
    /\ \E d \in {0, 1} : \A k \in DOMAIN w :
          \/ k + d = Len(r) + 1 /\ w[k] = x
          \/ k + d \in DOMAIN r /\ w[k] = r[k + d]

\* A result at the end of a sequence that keeps at most its last n.
LEMMA WindowFacts ==
  ASSUME NEW S, NEW r \in Seq(S), NEW x \in S, NEW n \in Nat \ {0},
         NEW w, w = IF Len(Append(r, x)) > n THEN Tail(Append(r, x)) ELSE Append(r, x)
  PROVE  /\ w \in Seq(S) /\ Len(w) \in Nat /\ Appended(w, r, x, n)
         /\ Len(r) <= n => Len(w) <= n
<1> DEFINE a == Append(r, x)
<1>1. /\ a \in Seq(S) /\ a # <<>> /\ Len(a) = Len(r) + 1 /\ Len(r) \in Nat
      /\ DOMAIN a = 1..Len(a) /\ DOMAIN r = 1..Len(r)
      /\ \A k \in 1..Len(r) : a[k] = r[k]
      /\ a[Len(r) + 1] = x
  BY AppendProperties, LenProperties
<1>0. w = IF Len(a) > n THEN Tail(a) ELSE a
  OBVIOUS
<1> HIDE DEF a
<1> DEFINE Shifted(d) ==
      \A k \in DOMAIN w : \/ k + d = Len(r) + 1 /\ w[k] = x
                          \/ k + d \in DOMAIN r /\ w[k] = r[k + d]
<1>2. CASE ~(Len(a) > n)
  <2>1. w = a
    BY ONLY <1>0, <1>2, Zenon
  <2>2. DOMAIN w = 1..(Len(r) + 1) /\ Len(w) = Len(r) + 1 /\ w \in Seq(S)
    BY <1>1, <2>1
  <2>m. Len(w) <= n
    BY ONLY <1>1, <1>2, <2>1
  <2>3. ASSUME NEW k \in 1..(Len(r) + 1)
        PROVE  \/ k + 0 = Len(r) + 1 /\ w[k] = x
               \/ k + 0 \in DOMAIN r /\ w[k] = r[k + 0]
    <3>1. k + 0 = k /\ (k = Len(r) + 1 \/ k \in 1..Len(r))
      BY <1>1
    <3>2. a[k] = w[k]
      BY <2>1, Zenon
    <3> QED  BY ONLY <1>1, <3>1, <3>2
  <2>4. Shifted(0)
    BY ONLY <2>2, <2>3 DEF Shifted
  <2>5. \E d \in {0, 1} : Shifted(d)
    <3> HIDE DEF Shifted
    <3> QED  BY ONLY <2>4
  <2> QED  BY ONLY <1>1, <2>2, <2>5, <2>m DEF Shifted, Appended
<1>3. CASE Len(a) > n
  <2>1. w = Tail(a)
    BY ONLY <1>0, <1>3, Zenon
  <2>2. /\ Tail(a) \in Seq(S) /\ Len(Tail(a)) = Len(r)
        /\ DOMAIN Tail(a) = 1..Len(r)
        /\ \A k \in 1..Len(r) : Tail(a)[k] = a[k + 1]
    BY <1>1, HeadTailProperties, LenProperties
  <2>3. ASSUME NEW k \in 1..Len(r)
        PROVE  \/ k + 1 = Len(r) + 1 /\ w[k] = x
               \/ k + 1 \in DOMAIN r /\ w[k] = r[k + 1]
    <3>1. k + 1 = Len(r) + 1 \/ k + 1 \in 1..Len(r)
      BY <1>1
    <3>2. w[k] = a[k + 1]
      BY <2>1, <2>2, Zenon
    <3> QED  BY ONLY <1>1, <3>1, <3>2
  <2>4. DOMAIN w = 1..Len(r)
    BY <2>1, <2>2, Zenon
  <2>5. Shifted(1)
    BY ONLY <2>3, <2>4 DEF Shifted
  <2>6. \E d \in {0, 1} : Shifted(d)
    <3> HIDE DEF Shifted
    <3> QED  BY ONLY <2>5
  <2>7. Len(w) = Len(r) /\ Len(w) >= n /\ w \in Seq(S)
    BY <1>1, <1>3, <2>1, <2>2
  <2> QED  BY ONLY <1>1, <2>6, <2>7 DEF Shifted, Appended
<1> QED  BY <1>2, <1>3

\* The numbers from 1 to n are n.
LEMMA UpTo ==
  ASSUME NEW n \in Nat
  PROVE  IsFiniteSet(1..n) /\ Cardinality(1..n) = n
<1>1. IsFiniteSet(1..n) /\ Cardinality(1..n) = IF 1 > n THEN 0 ELSE n - 1 + 1
  BY FS_Interval
<1>2. (IF 1 > n THEN 0 ELSE n - 1 + 1) = n
  OBVIOUS
<1> QED  BY <1>1, <1>2

\* The run of failures about one job is not longer than the run.
LEMMA AboutBound ==
  ASSUME Shape, NEW j
  PROVE  About(j) \in 0..Threshold
<1> DEFINE S == {i \in DOMAIN recent : recent[i].of = j}
<1>1. DOMAIN recent = 1..Len(recent) /\ Len(recent) \in Nat /\ Len(recent) <= Threshold
  BY LenProperties DEF Shape
<1>2. IsFiniteSet(1..Len(recent)) /\ Cardinality(1..Len(recent)) = Len(recent)
  BY <1>1, UpTo
<1>3. S \subseteq 1..Len(recent)
  BY <1>1
<1>4. IsFiniteSet(S) /\ Cardinality(S) <= Cardinality(1..Len(recent)) /\ Cardinality(S) \in Nat
  BY <1>2, <1>3, FS_Subset, FS_CardinalityType
<1> QED  BY <1>1, <1>2, <1>4, ThresholdAssumption DEF About

\* A sampler's result is counted and noted.
LEMMA EvaluateStep ==
  ASSUME Types, GuardInv, NEW s \in Samplers, NEW v \in Verdicts, Evaluate(s, v)
  PROVE  GuardInv'
<1> USE ThresholdAssumption
<1>1. fpc[s] = "infer" /\ UNCHANGED sampler /\ fjob[s] \in Jobs
  BY DEF Evaluate, camera, GuardInv, Shape, Working
<1>2. /\ fpc' \in [Samplers -> Steps] /\ grounds' \in [Samplers -> 0..Threshold]
      /\ \A t \in Samplers : fpc'[t] \in {"read", "infer"} => t # s /\ fpc'[t] = fpc[t]
      /\ \A t \in Samplers : fpc'[t] \in Working => fpc[t] \in Working /\ fjob'[t] = fjob[t]
  <2>1. /\ fpc \in [Samplers -> Steps] /\ grounds \in [Samplers -> 0..Threshold]
        /\ fjob \in [Samplers -> Jobs \cup {NoJob}] /\ 0 \in 0..Threshold
    BY DEF GuardInv, Shape, Types, WatchTypes
  <2>2. CASE Onward(s, "counted") /\ UNCHANGED grounds
    BY <1>1, <2>1, <2>2 DEF Onward, Steps, Working
  <2>3. CASE Over(s)
    BY <1>1, <2>1, <2>3 DEF Over, Steps, Working
  <2> QED  BY <2>2, <2>3 DEF Evaluate
<1>3. CASE recent' = <<>> /\ failures' = 0
  BY <1>1, <1>2, <1>3, EmptySeq DEF GuardInv, Shape, Backed, OneVote
<1>4. CASE recent' = recent /\ failures' = failures
  BY <1>1, <1>2, <1>4 DEF GuardInv, Shape, Backed, OneVote
<1>5. CASE v = "FAIL" /\ recent' = Noted(s, v) /\ failures' = Counted(v)
  <2> DEFINE x == [by |-> s, of |-> fjob[s]]
  <2>0. x \in Results /\ x.by = s
    BY <1>1 DEF Results
  <2>1. recent' = IF Len(Append(recent, x)) > Threshold THEN Tail(Append(recent, x))
                  ELSE Append(recent, x)
    BY <1>5 DEF Noted
  <2> HIDE DEF x
  <2>2. /\ recent' \in Seq(Results) /\ Len(recent') \in Nat /\ Appended(recent', recent, x, Threshold)
        /\ Len(recent') <= Threshold
    <3>1. recent \in Seq(Results) /\ Threshold \in Nat \ {0} /\ Len(recent) <= Threshold
      BY DEF GuardInv, Shape
    <3> QED  BY ONLY <2>0, <2>1, <3>1, WindowFacts
  <2>3. Shape' /\ Backed'
    <3>1. Shape'
      <4>1. failures' \in 0..Threshold
        BY <1>5 DEF GuardInv, Shape, Counted
      <4> QED  BY <1>1, <1>2, <2>2, <4>1 DEF GuardInv, Shape
    <3>2. Backed'
      BY <1>1, <1>5, <2>2 DEF GuardInv, Shape, Backed, Counted, Appended
    <3> QED  BY <3>1, <3>2
  <2>4. PICK d \in {0, 1} : \A k \in DOMAIN recent' :
              \/ k + d = Len(recent) + 1 /\ recent'[k] = x
              \/ k + d \in DOMAIN recent /\ recent'[k] = recent[k + d]
    BY <2>2 DEF Appended
  <2>5. DOMAIN recent \subseteq Nat /\ DOMAIN recent' \subseteq Nat /\ Len(recent) + 1 \notin DOMAIN recent
    BY <2>2, LenProperties DEF GuardInv, Shape
  <2>6. ASSUME NEW t \in Samplers \ {sampler}
        PROVE  /\ \A m, n \in DOMAIN recent' : recent'[m].by = t /\ recent'[n].by = t => m = n
               /\ fpc'[t] \in {"read", "infer"} => \A n \in DOMAIN recent' : recent'[n].by # t
    <3>1. CASE t = s
      BY <1>1, <1>2, <2>0, <2>4, <2>5, <3>1 DEF GuardInv, OneVote
    <3>2. CASE t # s
      <4>1. \A k \in DOMAIN recent' : recent'[k].by = t =>
                                          k + d \in DOMAIN recent /\ recent[k + d].by = t
        BY <2>0, <2>4, <3>2
      <4>2. ASSUME NEW m \in DOMAIN recent', NEW n \in DOMAIN recent',
                   recent'[m].by = t, recent'[n].by = t
            PROVE  m = n
        <5>1. m + d = n + d
          BY <1>1, <4>1, <4>2 DEF GuardInv, OneVote
        <5> QED  BY <2>5, <5>1
      <4>3. ASSUME fpc'[t] \in {"read", "infer"}, NEW n \in DOMAIN recent', recent'[n].by = t
            PROVE  FALSE
        BY <1>2, <4>1, <4>3 DEF GuardInv, OneVote
      <4> QED  BY <4>2, <4>3
    <3> QED  BY <3>1, <3>2
  <2> QED  BY <1>1, <2>3, <2>6 DEF GuardInv, OneVote
<1> QED  BY <1>3, <1>4, <1>5 DEF Evaluate, Counted, Noted, Verdicts

\* A new watch: a fresh history, and a sampler with no thread out.
LEMMA StartStep ==
  ASSUME GuardInv, NEW j, StartMonitoring(j), UNCHANGED threads
  PROVE  GuardInv'
<1> USE DEF threads
<1>1. CASE UNCHANGED <<camera, guard>>
  BY <1>1 DEF camera, guard, GuardInv, Shape, Backed, OneVote
<1>2. CASE sampler' \in {s \in Samplers : fpc[s] = "idle"} /\ Reset
  <2>1. failures' = 0 /\ recent' = <<>> /\ sampler' \in Samplers
    BY <1>2 DEF Reset
  <2>2. recent' \in Seq(Results) /\ Len(recent') = 0 /\ DOMAIN recent' = {}
    BY <2>1, EmptySeq
  <2> QED  BY <2>1, <2>2, ThresholdAssumption DEF GuardInv, Shape, Backed, OneVote
<1> QED  BY <1>1, <1>2 DEF StartMonitoring

\* A dispatched thread moves by itself; the job it has in hand is the one it
\* had, or the one the monitor watches when it reads that.
LEMMA Strides ==
  ASSUME Types, Shape, NEW s \in Samplers, Dispatched(s)
  PROVE  /\ UNCHANGED <<jobs, calls, ctrl, pauseEv, cancelEv, sampler>> \/ FailJob(s)
         /\ UNCHANGED <<jobs, calls, ctrl, cancelEv, sampler>> /\ watching' \in {watching, NoJob}
         /\ \A t \in Samplers \ {s} : fpc'[t] = fpc[t] /\ fjob'[t] = fjob[t]
         /\ fpc' \in [Samplers -> Steps] /\ fpc'[s] # "read" /\ fpc[s] # "idle"
         /\ fpc'[s] \in Working =>
               \/ fpc[s] \in Working /\ fjob'[s] = fjob[s]
               \/ fpc[s] = "read" /\ watching # NoJob /\ fjob'[s] = watching
<1>0. /\ fpc \in [Samplers -> Steps] /\ fjob \in [Samplers -> Jobs \cup {NoJob}]
      /\ watching \in Jobs \cup {NoJob}
  BY DEF Types, WatchTypes, Shape
<1>1. /\ UNCHANGED <<jobs, calls, ctrl, cancelEv, sampler>>
      /\ UNCHANGED pauseEv \/ FailJob(s)
      /\ watching' \in {watching, NoJob}
  BY DEF Dispatched, ReadJob, Evaluate, Compare, CheckCooldown, Intervene, DecisionLost, FailJob,
         StopAfterFail, StopMonitoring, evs, camera
<1>2. CASE ReadJob(s)
  BY <1>0, <1>1, <1>2 DEF ReadJob, Steps, Working
<1>3. CASE ~ReadJob(s)
  <2>1. /\ fpc[s] \in Working
        /\ Over(s) \/ (UNCHANGED fjob /\ \E q \in Working : fpc' = [fpc EXCEPT ![s] = q])
    BY <1>3 DEF Dispatched, Evaluate, Compare, CheckCooldown, Intervene, DecisionLost, FailJob,
                StopAfterFail, Onward, Working
  <2> QED  BY <1>0, <1>1, <2>1 DEF Over, Steps, Working
<1> QED  BY <1>2, <1>3

\* A dispatched thread that finds its job, looks at the guard, or is done.
LEMMA ThreadStep ==
  ASSUME Types, GuardInv, NEW s \in Samplers,
         \/ ReadJob(s) \/ Compare(s) \/ CheckCooldown(s) \/ Intervene(s)
         \/ DecisionLost(s) \/ FailJob(s) \/ StopAfterFail(s)
  PROVE  GuardInv'
<1>0. Dispatched(s) /\ Shape
  BY DEF Dispatched, GuardInv
<1>1. UNCHANGED sampler
  BY <1>0, Strides
<1>2. /\ fpc' \in [Samplers -> Steps]
      /\ \A t \in Samplers : fpc'[t] \in {"read", "infer"} => fpc[t] \in {"read", "infer"}
  <2>1. fpc'[s] = "infer" => fpc[s] = "read"
    BY DEF ReadJob, Compare, CheckCooldown, Intervene, DecisionLost, FailJob, StopAfterFail, Over,
           Onward, GuardInv, Shape
  <2> QED  BY <1>0, <2>1, Strides
<1>3. \A t \in Samplers : fpc'[t] \in Working => fjob'[t] \in Jobs
  <2>1. watching \in Jobs \cup {NoJob}
    BY DEF Types, WatchTypes
  <2> QED  BY <1>0, <2>1, Strides DEF Shape
<1>4. grounds' \in [Samplers -> 0..Threshold]
  <2>1. ASSUME NEW g \in 0..Threshold, grounds' = [grounds EXCEPT ![s] = g]
        PROVE  grounds' \in [Samplers -> 0..Threshold]
    BY <2>1 DEF GuardInv, Shape
  <2>2. CASE Compare(s)
    BY <2>1, <2>2, AboutBound, ThresholdAssumption DEF Compare, Over, GuardInv
  <2>3. CASE ~Compare(s)
    BY <2>1, <2>3, ThresholdAssumption
       DEF ReadJob, CheckCooldown, Intervene, DecisionLost, FailJob, StopAfterFail, Over, GuardInv,
           Shape
  <2> QED  BY <2>2, <2>3
<1>5. CASE Intervene(s)
  <2>1. failures' = 0 /\ recent' = <<>>
    BY <1>5 DEF Intervene
  <2>2. recent' \in Seq(Results) /\ Len(recent') = 0 /\ DOMAIN recent' = {}
    BY <2>1, EmptySeq
  <2> QED
    BY <1>1, <1>2, <1>3, <1>4, <2>1, <2>2, ThresholdAssumption DEF GuardInv, Shape, Backed, OneVote
<1>6. CASE ~Intervene(s)
  <2>1. UNCHANGED <<failures, recent>>
    BY <1>6 DEF ReadJob, Compare, CheckCooldown, DecisionLost, FailJob, StopAfterFail, guard
  <2> QED  BY <1>1, <1>2, <1>3, <1>4, <2>1 DEF GuardInv, Shape, Backed, OneVote
<1> QED  BY <1>5, <1>6

\* The history and the count change only where a result is evaluated or a
\* watch begins; a thread that has its result is never on the way to another.
THEOREM GuardTheorem == Spec => []GuardInv
<1>1. Init => GuardInv
  BY ThresholdAssumption, SamplersAssumption, EmptySeq
     DEF Init, GuardInv, Shape, Backed, OneVote, Samplers, Steps, Working
<1>2. Types /\ GuardInv /\ [Next]_vars => GuardInv'
  <2> SUFFICES ASSUME Types, GuardInv, [Next]_vars PROVE GuardInv'
    OBVIOUS
  <2>1. CASE UNCHANGED <<sampler, threads, failures, recent>>
    BY <2>1 DEF GuardInv, Shape, Backed, OneVote, threads
  <2>2. UNCHANGED vars => UNCHANGED <<sampler, threads, failures, recent>>
    BY DEF vars, camera, guard
  <2>3. ASSUME NEW j \in Jobs, Stream(j) \/ Control(j)
        PROVE  UNCHANGED <<sampler, threads, failures, recent>>
    BY <2>3 DEF Stream, Control, Begin, MarkStarted, Line, LeaveHold, LinesOver, FailStop, Finish,
                Submit, Pause, Resume, Cancel, camera, guard
  <2>4. ASSUME NEW n \in Notifier, Listen(n) PROVE GuardInv'
    <3>1. CASE StartCall(n)
      BY <3>1, StartStep DEF StartCall
    <3>2. CASE Hear(n) \/ TakeOn(n) \/ Leave(n) \/ StopCall(n) \/ ClearCurrent(n)
      BY <2>1, <3>2 DEF Hear, TakeOn, Leave, StopCall, StopMonitoring, ClearCurrent, camera, guard
    <3> QED  BY <2>4, <3>1, <3>2 DEF Listen
  <2>5. ASSUME NEW s \in Samplers, Dispatched(s) PROVE GuardInv'
    BY <2>5, EvaluateStep, ThreadStep DEF Dispatched
  <2>6. CASE Tick
    BY <2>6 DEF Tick, camera, guard, GuardInv, Shape, Backed, OneVote, Steps, Working
  <2>7. CASE CooldownOver
    BY <2>1, <2>7 DEF CooldownOver, camera
  <2> QED  BY <2>1, <2>2, <2>3, <2>4, <2>5, <2>6, <2>7 DEF Next
<1> QED  BY <1>1, <1>2, TypesTheorem, PTL DEF Spec

-----------------------------------------------------------------------------
\* A sampler that was stopped has at most one vote left.
THEOREM OneVoteTheorem == Spec => []OldSamplersOneVote
<1>1. GuardInv => OldSamplersOneVote
  <2> SUFFICES ASSUME GuardInv, NEW s \in Samplers \ {sampler}
               PROVE  Cardinality({i \in DOMAIN recent : recent[i].by = s}) <= 1
    BY DEF OldSamplersOneVote
  <2>1. \A m, n \in {i \in DOMAIN recent : recent[i].by = s} : m = n
    BY DEF GuardInv, OneVote
  <2>2. ASSUME NEW votes, \A m, n \in votes : m = n
        PROVE  Cardinality(votes) <= 1
    <3>1. CASE votes = {}
      BY <3>1, FS_EmptySet
    <3>2. ASSUME NEW m \in votes PROVE Cardinality(votes) <= 1
      <4>1. votes = {m}
        BY <2>2
      <4> QED  BY <4>1, FS_Singleton
    <3> QED  BY <3>1, <3>2
  <2> QED  BY <2>1, <2>2
<1> QED  BY <1>1, GuardTheorem, PTL

-----------------------------------------------------------------------------
\* The types of all the variables, the guard's with them: its count never
\* exceeds the threshold.
THEOREM TypeTheorem == Spec => []TypeOK
<1>1. Types /\ GuardInv => TypeOK
  BY DEF Types, JobTypes, EventTypes, WatchTypes, GuardInv, Shape, Steps, Working, Results, TypeOK
<1> QED  BY <1>1, TypesTheorem, GuardTheorem, PTL

-----------------------------------------------------------------------------
(* The first print of a process.                                           *)

\* Job j has been started, no other job has, and its thread has not ended.
Alone(j) == pc[j] \notin {"none", "done"} /\ \A k \in Jobs \ {j} : pc[k] = "none"

\* Its executor is past the checks before the start.
Past(j) == pc[j] \notin {"none", "begin", "starting"}

\* The job is to be failed, or was and has been cancelled since: it does not
\* print another line.
Lost(j) == failEv[j] \/ (cancelEv[j] /\ status[j] \in Terminal /\ Past(j))

Waits(j) == \E n \in DOMAIN queue : queue[n] = j

\* A job that was not submitted is neither started nor in the queue.
Submitted == \A j \in Jobs : status[j] = "NONE" => pc[j] = "none" /\ ~Waits(j)

\* Before any job is started vision rests.
Blank ==
    /\ active = NoJob /\ queue = <<>> /\ current = NoJob /\ watching = NoJob
    /\ \A n \in Notifier : call[n] = "no"
    /\ \A s \in Samplers : fpc[s] = "idle"
    /\ \A j \in Jobs : ~failEv[j]

\* The job has the slot for itself, and controller, monitor and dispatched
\* threads know no other.
Engaged(j) ==
    /\ active = j /\ ~Waits(j)
    /\ \A k \in Jobs \ {j} : call[k] = "no"
    /\ current \in {NoJob, j} /\ watching \in {NoJob, j}
    /\ \A s \in Samplers : fpc[s] \in Working => fjob[s] = j

\* Until it prints nobody has heard of it.
Unheard(j) ==
    Past(j) \/ /\ status[j] \notin {"PRINTING", "PAUSED"} /\ ~failEv[j]
               /\ current = NoJob /\ watching = NoJob
               /\ \A s \in Samplers : fpc[s] = "idle"
               /\ call[j] \in {"no", "hear", "leave"} /\ call[Ctl] \in {"no", "hear", "leave"}

\* The controller's job is watched, unless a notifier is just starting the
\* monitor, or has stopped it and will clear the job, or the job is lost; and
\* a thread that stops the monitor on its own has seen to the latter.
Watched(j) ==
    /\ current = j => \/ watching = j \/ Lost(j)
                      \/ call[j] \in {"start", "clear"} \/ call[Ctl] \in {"start", "clear"}
    /\ \A s \in Samplers : fpc[s] = "stop" => Lost(j)

Attended(j) == Engaged(j) /\ Unheard(j) /\ Watched(j)

FirstInv ==
    /\ Submitted
    /\ (\A k \in Jobs : pc[k] = "none") => Blank
    /\ \A j \in Jobs : Alone(j) => Attended(j)

-----------------------------------------------------------------------------
\* The head of the queue leaves it, and nobody else comes in.
LEMMA QueueOrder ==
  ASSUME NEW S, NEW q \in Seq(S)
  PROVE  /\ \A x \in S : \A n \in DOMAIN Append(q, x) :
                Append(q, x)[n] = x \/ (n \in DOMAIN q /\ Append(q, x)[n] = q[n])
         /\ q # <<>> => /\ Head(q) \in S /\ 1 \in DOMAIN q /\ Head(q) = q[1]
                        /\ \A n \in DOMAIN Tail(q) : n + 1 \in DOMAIN q /\ Tail(q)[n] = q[n + 1]
<1>1. DOMAIN q = 1..Len(q) /\ Len(q) \in Nat
  BY LenProperties
<1>2. ASSUME NEW x \in S, NEW n \in DOMAIN Append(q, x)
      PROVE  Append(q, x)[n] = x \/ (n \in DOMAIN q /\ Append(q, x)[n] = q[n])
  <2>1. n \in 1..(Len(q) + 1)
    BY <1>1, AppendProperties, LenProperties
  <2>2. CASE n = Len(q) + 1
    BY <2>2, AppendProperties
  <2>3. CASE n \in 1..Len(q)
    BY <1>1, <2>3, AppendProperties
  <2> QED  BY <1>1, <2>1, <2>2, <2>3
<1>3. ASSUME q # <<>>
      PROVE  /\ Head(q) \in S /\ 1 \in DOMAIN q /\ Head(q) = q[1]
             /\ \A n \in DOMAIN Tail(q) : n + 1 \in DOMAIN q /\ Tail(q)[n] = q[n + 1]
  <2>1. Len(q) # 0 /\ Len(q) >= 1
    BY <1>1, <1>3, EmptySeq
  <2>2. Tail(q) \in Seq(S) /\ Len(Tail(q)) = Len(q) - 1 /\ Head(q) \in S
    BY <1>3, HeadTailProperties
  <2>3. \A n \in 1..Len(Tail(q)) : Tail(q)[n] = q[n + 1]
    BY <1>3, HeadTailProperties
  <2>4. DOMAIN Tail(q) = 1..(Len(q) - 1)
    BY <2>2, LenProperties
  <2> QED  BY <1>1, <2>1, <2>2, <2>3, <2>4
<1> QED  BY <1>2, <1>3

\* Who writes where the executors stand: submit starts a job or queues it, a
\* job that ends may start the next one, otherwise each goes on by itself.
Queues(j) == /\ status[j] = "NONE" /\ Submit(j)
             /\ \/ active = NoJob /\ UNCHANGED queue /\ pc' = [pc EXCEPT ![j] = "begin"]
                \/ active # NoJob /\ UNCHANGED pc /\ queue' = Append(queue, j)
GoesOn(j) == /\ pc[j] \notin {"none", "done"} /\ UNCHANGED queue
             /\ \E p \in {"starting", "top", "hold", "fire", "fire_done", "done"} :
                   pc' = [pc EXCEPT ![j] = p]
MakesWay(j) == /\ pc[j] \in {"fire", "fire_done"} /\ queue # <<>> /\ queue' = Tail(queue)
               /\ pc' = [pc EXCEPT ![j] = "done", ![Head(queue)] = "begin"]
Ways == UNCHANGED <<pc, queue>> \/ \E j \in Jobs : Queues(j) \/ GoesOn(j) \/ MakesWay(j)

LEMMA Places ==
  ASSUME Types, [Next]_vars
  PROVE  Ways
<1>1. ASSUME NEW j \in Jobs, Submit(j) PROVE Ways
  BY <1>1 DEF Submit, Goto, Ways, Queues
<1>2. ASSUME NEW j \in Jobs,
             Begin(j) \/ MarkStarted(j) \/ Line(j) \/ LeaveHold(j) \/ LinesOver(j) \/ FailStop(j)
      PROVE  Ways
  BY <1>2 DEF Begin, MarkStarted, Line, LeaveHold, LinesOver, FailStop, Moves, MarkAndTell, Goto,
              Ways, GoesOn
<1>3. ASSUME NEW j \in Jobs, Finish(j) PROVE Ways
  BY <1>3 DEF Finish, Moves, Goto, Ways, GoesOn, MakesWay
<1>4. ASSUME NEW j \in Jobs, Pause(j) \/ Resume(j) \/ Cancel(j) PROVE UNCHANGED <<pc, queue>>
  BY <1>4 DEF Pause, Resume, Cancel
<1>5. ASSUME NEW n \in Notifier, Listen(n) PROVE UNCHANGED <<pc, queue>>
  BY <1>5 DEF Listen, Hear, TakeOn, StartCall, Leave, StopCall, ClearCurrent, jobs
<1>6. ASSUME NEW s \in Samplers, Dispatched(s) PROVE UNCHANGED <<pc, queue>>
  BY <1>6 DEF Dispatched, ReadJob, Evaluate, Compare, CheckCooldown, Intervene, DecisionLost,
              FailJob, StopAfterFail, jobs
<1>7. Tick \/ CooldownOver \/ UNCHANGED vars => UNCHANGED <<pc, queue>>
  BY DEF Tick, CooldownOver, vars, jobs
<1>8. UNCHANGED <<pc, queue>> => Ways
  BY DEF Ways
<1> QED
  BY <1>1, <1>2, <1>3, <1>4, <1>5, <1>6, <1>7, <1>8 DEF Next, Stream, Control

\* A status is never taken back to before submit.
LEMMA StatusKept ==
  ASSUME Types, [Next]_vars, NEW j \in Jobs, status'[j] = "NONE"
  PROVE  status[j] = "NONE" /\ ~Submit(j)
<1> USE DEF Types, JobTypes
<1>1. ASSUME NEW k \in Jobs, NEW st, st # "NONE", Mark(k, st) PROVE k # j /\ status[j] = "NONE"
  BY <1>1 DEF Mark
<1>2. ASSUME NEW k \in Jobs, Stream(k) PROVE status[j] = "NONE"
  BY <1>1, <1>2 DEF Stream, Begin, MarkStarted, Line, LeaveHold, LinesOver, FailStop, Finish,
                MarkAndTell
<1>3. ASSUME NEW k \in Jobs, Control(k) PROVE status[j] = "NONE" /\ (Submit(k) => k # j)
  BY <1>1, <1>3 DEF Control, Submit, Pause, Resume, Cancel
<1>4. ASSUME NEW n \in Notifier, Listen(n) PROVE UNCHANGED status
  BY <1>4 DEF Listen, Hear, TakeOn, StartCall, Leave, StopCall, ClearCurrent, jobs
<1>5. ASSUME NEW s \in Samplers, Dispatched(s) PROVE UNCHANGED status
  BY <1>5 DEF Dispatched, ReadJob, Evaluate, Compare, CheckCooldown, Intervene, DecisionLost,
              FailJob, StopAfterFail, jobs
<1>6. Tick \/ CooldownOver \/ UNCHANGED vars => UNCHANGED status
  BY DEF Tick, CooldownOver, vars, jobs
<1>7. ~Submit(j)
  BY <1>1 DEF Submit
<1> QED  BY <1>2, <1>3, <1>4, <1>5, <1>6, <1>7 DEF Next

\* Nothing goes back to before its start, and a job that is alone was so
\* before, or has just been submitted to a process without jobs.
LEMMA AloneBefore ==
  ASSUME Types, Submitted, [Next]_vars
  PROVE  /\ Submitted'
         /\ \A k \in Jobs : pc'[k] = "none" => pc[k] = "none"
         /\ \A j \in Jobs : Alone(j)' => \/ Alone(j)
                                         \/ (\A k \in Jobs : pc[k] = "none") /\ Submit(j)
<1> DEFINE Unsent == \A k \in Jobs : status'[k] = "NONE" => pc'[k] = "none" /\ ~Waits(k)'
           NoReturn == \A k \in Jobs : pc'[k] = "none" => pc[k] = "none"
           Fresh  == (\A k \in Jobs : pc[k] = "none")
           First  == \A j \in Jobs : Alone(j)' => Alone(j) \/ (Fresh /\ Submit(j))
           Claim  == Unsent /\ NoReturn /\ First
<1>0. /\ pc \in [Jobs -> {"none", "begin", "starting", "top", "hold", "fire", "fire_done", "done"}]
      /\ queue \in Seq(Jobs)
  BY DEF Types, JobTypes
<1>a. \A k \in Jobs : status'[k] = "NONE" => status[k] = "NONE" /\ pc[k] = "none" /\ ~Waits(k) /\ ~Submit(k)
  BY StatusKept DEF Submitted
<1>1. ASSUME UNCHANGED <<pc, queue>> PROVE Claim
  BY <1>1, <1>a DEF Alone, Waits
<1>2. ASSUME NEW j \in Jobs, Queues(j) PROVE Claim
  <2>1. Submit(j) /\ pc[j] = "none"
    BY <1>2 DEF Queues, Submitted
  <2>2. CASE UNCHANGED queue /\ pc' = [pc EXCEPT ![j] = "begin"]
    <3>1. \A k \in Jobs : pc'[k] = IF k = j THEN "begin" ELSE pc[k]
      BY <1>0, <2>2
    <3>2. \A k \in Jobs : Waits(k)' => Waits(k)
      BY <2>2 DEF Waits
    <3>3. Unsent
      BY <1>a, <2>1, <3>1, <3>2
    <3>4. First
      BY <2>1, <3>1 DEF Alone
    <3> QED  BY <3>1, <3>3, <3>4
  <2>3. CASE UNCHANGED pc /\ queue' = Append(queue, j)
    <3>1. \A k \in Jobs : Waits(k)' => Waits(k) \/ k = j
      BY <1>0, <2>3, QueueOrder DEF Waits
    <3>2. Unsent
      BY <1>a, <2>1, <2>3, <3>1
    <3> QED  BY <2>3, <3>2 DEF Alone
  <2> QED  BY <1>2, <2>2, <2>3 DEF Queues
<1>3. ASSUME NEW j \in Jobs, GoesOn(j) PROVE Claim
  <2>1. PICK p \in {"starting", "top", "hold", "fire", "fire_done", "done"} :
             pc' = [pc EXCEPT ![j] = p]
    BY <1>3 DEF GoesOn
  <2>2. \A k \in Jobs : pc'[k] = IF k = j THEN p ELSE pc[k]
    BY <1>0, <2>1
  <2>3. pc[j] \notin {"none", "done"} /\ UNCHANGED queue
    BY <1>3 DEF GoesOn
  <2>4. \A k \in Jobs : Waits(k)' => Waits(k)
    BY <2>3 DEF Waits
  <2>5. Unsent
    BY <1>a, <2>2, <2>3, <2>4
  <2>6. First
    BY <2>2, <2>3 DEF Alone
  <2> QED  BY <2>2, <2>3, <2>5, <2>6
<1>4. ASSUME NEW j \in Jobs, MakesWay(j) PROVE Claim
  <2>1. /\ Head(queue) \in Jobs /\ Waits(Head(queue))
        /\ \A k \in Jobs : Waits(k)' => Waits(k)
    BY <1>0, <1>4, QueueOrder DEF MakesWay, Waits
  <2>2. \A k \in Jobs : pc'[k] = IF k = Head(queue) THEN "begin" ELSE IF k = j THEN "done" ELSE pc[k]
    BY <1>0, <1>4, <2>1 DEF MakesWay
  <2>3. pc[j] \in {"fire", "fire_done"}
    BY <1>4 DEF MakesWay
  <2>4. ASSUME NEW l \in Jobs, Alone(l)' PROVE Alone(l)
    <3>1. l = j
      <4>1. pc'[j] # "none"
        BY <2>2
      <4> QED  BY <2>4, <4>1 DEF Alone
    <3>2. \A k \in Jobs \ {j} : pc[k] = "none"
      <4> SUFFICES ASSUME NEW k \in Jobs \ {j} PROVE pc[k] = "none"
        OBVIOUS
      <4>1. pc'[k] = "none"
        BY <2>4, <3>1 DEF Alone
      <4> QED  BY <2>2, <4>1
    <3> QED  BY <2>3, <3>1, <3>2 DEF Alone
  <2>5. Unsent
    BY <1>a, <2>1, <2>2, <2>3
  <2>6. NoReturn
    BY <2>1, <2>2, <2>3
  <2> QED  BY <2>4, <2>5, <2>6
<1>5. Claim
  <2> HIDE DEF Claim
  <2> QED  BY <1>1, <1>2, <1>3, <1>4, Places DEF Ways
<1> QED  BY <1>5 DEF Submitted

\* As long as no job is started vision goes on resting.
LEMMA BlankStep ==
  ASSUME Types, Submitted, Blank, [Next]_vars, \A k \in Jobs : pc'[k] = "none"
  PROVE  Blank'
<1>0. \A k \in Jobs : pc[k] = "none"
  BY AloneBefore
<1>1. ASSUME NEW j \in Jobs, Stream(j) PROVE FALSE
  BY <1>0, <1>1 DEF Stream, Begin, MarkStarted, Line, LeaveHold, LinesOver, FailStop, Finish, Moves
<1>2. ASSUME NEW j \in Jobs, Control(j) PROVE FALSE
  <2>1. ~(Pause(j) \/ Resume(j) \/ Cancel(j))
    BY DEF Pause, Resume, Cancel, Calls, Blank, NoJob, Jobs
  <2>2. pc' = [pc EXCEPT ![j] = "begin"]
    BY <1>2, <2>1 DEF Control, Submit, Blank, Goto
  <2>3. pc'[j] = "begin"
    BY <2>2 DEF Types, JobTypes
  <2> QED  BY <2>3
<1>3. ASSUME NEW n \in Notifier, Listen(n) PROVE FALSE
  BY <1>3 DEF Listen, Hear, TakeOn, StartCall, Leave, StopCall, ClearCurrent, At, Blank
<1>4. ASSUME NEW s \in Samplers, Dispatched(s) PROVE FALSE
  BY <1>4 DEF Dispatched, ReadJob, Evaluate, Compare, CheckCooldown, Intervene, DecisionLost,
              FailJob, StopAfterFail, Blank
<1>5. ~Tick
  BY DEF Tick, Blank
<1>6. UNCHANGED <<active, queue, current, watching, call, fpc, failEv>>
  BY <1>1, <1>2, <1>3, <1>4, <1>5 DEF Next, CooldownOver, vars, jobs, evs, ctrl, camera, threads
<1> QED  BY <1>6 DEF Blank

\* The first job finds vision at rest.
LEMMA FirstSubmit ==
  ASSUME Types, Blank, NEW j \in Jobs, Submit(j)
  PROVE  Attended(j)'
<1>1. /\ active' = j /\ queue' = <<>> /\ pc' = [pc EXCEPT ![j] = "begin"]
      /\ status' = [status EXCEPT ![j] = "QUEUED"]
      /\ UNCHANGED <<call, current, watching, fpc, failEv>>
  BY DEF Submit, Blank, Goto, Mark, evs, ctrl, camera, threads
<1>2. pc'[j] = "begin" /\ status'[j] = "QUEUED" /\ j # NoJob
  BY <1>1 DEF Types, JobTypes, Jobs, NoJob
<1>3. ~Waits(j)'
  <2>1. DOMAIN <<>> = {}
    OBVIOUS
  <2> QED  BY <1>1, <2>1 DEF Waits
<1>4. Engaged(j)'
  BY <1>1, <1>3 DEF Engaged, Blank, Notifier, Working
<1>5. Unheard(j)'
  BY <1>1, <1>2 DEF Unheard, Blank, Notifier
<1>6. Watched(j)'
  BY <1>1, <1>2 DEF Watched, Blank
<1> QED  BY <1>4, <1>5, <1>6 DEF Attended

-----------------------------------------------------------------------------
(* What keeps the first job attended, actor by actor.                      *)

\* Its own executor: a lost job stays lost, the executor calls nobody while
\* it waits for the listener, and it starts to print without vision knowing.
LEMMA StreamAttended ==
  ASSUME Types, NEW j \in Jobs, Alone(j), Alone(j)', Attended(j), NEW k \in Jobs, Stream(k)
  PROVE  Attended(j)'
<1> USE DEF Types, JobTypes, EventTypes, WatchTypes
<1>1. k = j
  BY DEF Alone, Stream, Begin, MarkStarted, Line, LeaveHold, LinesOver, FailStop, Finish, Moves
<1>2. ~Finish(j)
  <2> SUFFICES ASSUME Finish(j) PROVE FALSE
    OBVIOUS
  <2>1. CASE queue = <<>>
    BY <2>1 DEF Finish, Goto, Alone
  <2>2. CASE queue # <<>>
    <3>1. Head(queue) \in Jobs /\ Waits(Head(queue))
      BY <2>2, QueueOrder DEF Waits
    <3>2. Head(queue) # j
      BY <3>1 DEF Attended, Engaged
    <3>3. pc' = [pc EXCEPT ![j] = "done", ![Head(queue)] = "begin"]
      BY <2>2 DEF Finish
    <3>4. pc'[j] = "done"
      BY <3>1, <3>2, <3>3
    <3> QED  BY <3>4 DEF Alone
  <2> QED  BY <2>1, <2>2
<1>3. Begin(j) \/ MarkStarted(j) \/ Line(j) \/ LeaveHold(j) \/ LinesOver(j) \/ FailStop(j)
  BY <1>1, <1>2 DEF Stream
<1>4. /\ UNCHANGED <<active, queue, pauseEv, cancelEv, failEv, current, watching, fpc, fjob>>
      /\ call[j] = "no" /\ (UNCHANGED call \/ call' = [call EXCEPT ![j] = "hear"])
  BY <1>3 DEF Begin, MarkStarted, Line, LeaveHold, LinesOver, FailStop, Moves, MarkAndTell, Tell, Go,
              evs, ctrl, camera, threads
<1>5. /\ j \in Notifier /\ Ctl \in Notifier /\ Ctl # j
      /\ call'[j] \in {"no", "hear"} /\ (\A n \in Notifier \ {j} : call'[n] = call[n])
  BY <1>4 DEF Notifier, Ctl, Jobs
<1>6. Engaged(j)'
  BY <1>4, <1>5 DEF Attended, Engaged, Waits, Notifier
<1>7. Unheard(j)'
  <2>1. CASE pc'[j] = "starting"
    <3>1. pc[j] = "begin" /\ UNCHANGED <<status, call>>
      BY <1>3, <2>1 DEF Begin, MarkStarted, Line, LeaveHold, LinesOver, FailStop, Moves,
                MarkAndTell, Goto
    <3> QED  BY <1>4, <3>1 DEF Attended, Unheard, Past
  <2>2. CASE pc'[j] # "starting"
    <3>1. pc'[j] \notin {"none", "begin", "starting"}
      BY <1>3, <2>2 DEF Begin, MarkStarted, Line, LeaveHold, LinesOver, FailStop, MarkAndTell, Goto
    <3> QED  BY <3>1 DEF Unheard, Past
  <2> QED  BY <2>1, <2>2
<1>8. Lost(j) => Lost(j)'
  <2> SUFFICES ASSUME Lost(j) PROVE Lost(j)'
    OBVIOUS
  <2>1. CASE Begin(j) \/ MarkStarted(j)
    BY <2>1 DEF Begin, MarkStarted, Moves, Attended, Unheard, Past, Lost
  <2>2. CASE Line(j)
    <3>1. /\ cancelEv[j] /\ status' = [status EXCEPT ![j] = "CANCELLED"]
          /\ pc' = [pc EXCEPT ![j] = "fire"]
      BY <2>2 DEF Line, Lost, MarkAndTell, Mark, Goto
    <3> QED  BY <1>4, <3>1 DEF Lost, Past, Terminal
  <2>3. CASE LeaveHold(j)
    <3>1. pc' = [pc EXCEPT ![j] = "top"] /\ UNCHANGED status
      BY <2>3 DEF LeaveHold, Lost, Goto
    <3> QED  BY <1>4, <3>1 DEF Lost, Past
  <2>4. CASE LinesOver(j)
    <3>1. pc' = [pc EXCEPT ![j] = "done"]
      BY <2>4 DEF LinesOver, Lost, Goto
    <3> QED  BY <3>1 DEF Alone
  <2>5. CASE FailStop(j)
    BY <1>4, <2>5 DEF FailStop, Lost
  <2> QED  BY <1>3, <2>1, <2>2, <2>3, <2>4, <2>5
<1>9. Watched(j)'
  <2>1. UNCHANGED <<current, watching, fpc>> /\ call'[Ctl] = call[Ctl] /\ call[j] = "no"
    BY <1>4, <1>5
  <2>2. /\ current = j => watching = j \/ Lost(j) \/ call[Ctl] \in {"start", "clear"}
        /\ \A s \in Samplers : fpc[s] = "stop" => Lost(j)
    BY <2>1 DEF Attended, Watched
  <2> QED  BY <1>8, <2>1, <2>2 DEF Watched
<1> QED  BY <1>6, <1>7, <1>9 DEF Attended

\* Control calls: they are about the active job, and only a job that prints is
\* paused; a cancel takes the failure back, and ends the job itself.
LEMMA ControlAttended ==
  ASSUME Types, Submitted, NEW j \in Jobs, Alone(j), Attended(j), NEW k \in Jobs, Control(k)
  PROVE  Attended(j)'
<1> USE DEF Types, JobTypes, EventTypes, WatchTypes
<1>0. j \in Notifier /\ Ctl \in Notifier /\ Ctl \notin Jobs /\ j # NoJob /\ active = j
  BY DEF Notifier, Ctl, Jobs, NoJob, Attended, Engaged
<1>1. UNCHANGED <<current, watching, fpc, fjob>>
  BY DEF Control, Submit, Pause, Resume, Cancel, ctrl, camera, threads
<1>2. CASE Submit(k)
  <2>1. k # j
    BY <1>2 DEF Submit, Submitted, Alone
  <2>2. /\ queue' = Append(queue, k) /\ status' = [status EXCEPT ![k] = "QUEUED"]
        /\ UNCHANGED <<active, pc, cancelEv, failEv, call>>
    BY <1>0, <1>2 DEF Submit, Mark, evs, ctrl
  <2>3. ~Waits(j)'
    BY <2>1, <2>2, QueueOrder DEF Attended, Engaged, Waits
  <2>4. status'[j] = status[j]
    BY <2>1, <2>2
  <2> QED  BY <1>1, <2>2, <2>3, <2>4 DEF Attended, Engaged, Unheard, Watched, Past, Lost
<1>3. CASE Pause(k) \/ Resume(k) \/ Cancel(k)
  <2>1. k = j /\ call[Ctl] = "no" /\ UNCHANGED <<active, queue, pc>>
    BY <1>0, <1>3 DEF Pause, Resume, Cancel, Calls, LockFree
  <2>2. UNCHANGED call \/ call' = [call EXCEPT ![Ctl] = "hear"]
    BY <1>3 DEF Pause, Resume, Cancel, Tell, Go
  <2>3. call'[Ctl] \in {"no", "hear"} /\ (\A n \in Jobs : call'[n] = call[n])
    BY <1>0, <2>1, <2>2 DEF Notifier
  <2>4. Engaged(j)'
    BY <1>1, <2>1, <2>3 DEF Attended, Engaged, Waits
  <2>5. CASE Cancel(j)
    <3>1. cancelEv'[j] = TRUE /\ failEv'[j] = FALSE
      BY <2>5 DEF Cancel
    <3>2. status'[j] \in Terminal
      BY <2>5 DEF Cancel, Mark, Terminal
    <3>3. Unheard(j)'
      BY <1>1, <2>1, <2>3, <3>1, <3>2 DEF Attended, Unheard, Past, Terminal
    <3>4. Lost(j) => Lost(j)'
      BY <2>1, <3>1, <3>2 DEF Attended, Unheard, Lost, Past
    <3>5. Watched(j)'
      BY <1>1, <2>1, <2>3, <3>4 DEF Attended, Watched
    <3> QED  BY <2>4, <3>3, <3>5 DEF Attended
  <2>6. CASE Pause(j) \/ Resume(j)
    <3>1. UNCHANGED <<cancelEv, failEv>> /\ status[j] \in {"PRINTING", "PAUSED"}
      BY <2>6 DEF Pause, Resume
    <3>2. Past(j) /\ Past(j)'
      BY <2>1, <3>1 DEF Attended, Unheard, Past
    <3>3. Lost(j) => Lost(j)'
      BY <3>1 DEF Lost, Terminal
    <3>4. Watched(j)'
      BY <1>1, <2>1, <2>3, <3>3 DEF Attended, Watched
    <3> QED  BY <2>4, <3>2, <3>4 DEF Attended, Unheard
  <2> QED  BY <1>3, <2>1, <2>5, <2>6
<1> QED  BY <1>2, <1>3 DEF Control

\* The listener calls, of the executor's thread and of the control call's: a
\* monitor is stopped for the job only on the way to clearing it.
LEMMA ListenAttended ==
  ASSUME Types, NEW j \in Jobs, Alone(j), Attended(j), NEW n \in Notifier, Listen(n)
  PROVE  Attended(j)'
<1> USE DEF Types, JobTypes, EventTypes, WatchTypes
<1>0. j \in Notifier /\ Ctl \in Notifier /\ Ctl # j /\ j # NoJob
  BY DEF Notifier, Ctl, Jobs, NoJob
<1>1. n \in {j, Ctl}
  BY DEF Listen, Hear, TakeOn, StartCall, Leave, StopCall, ClearCurrent, At, Attended, Engaged,
         Notifier
<1>2. Subject(n) = j
  BY <1>1 DEF Subject, Attended, Engaged
<1>3. UNCHANGED <<active, queue, status, pc, cancelEv, failEv, fpc, fjob>>
  BY DEF Listen, Hear, TakeOn, StartCall, Leave, StopCall, ClearCurrent, jobs, evs, threads
<1>4. PICK p \in {"no", "print", "start", "leave", "clear", "stop"} : call' = [call EXCEPT ![n] = p]
  BY DEF Listen, Hear, TakeOn, StartCall, Leave, StopCall, ClearCurrent, Go
<1>5. call'[n] = p /\ \A m \in Notifier \ {n} : call'[m] = call[m]
  BY <1>4
<1>6. current' \in {NoJob, j} /\ watching' \in {NoJob, j}
  BY <1>2 DEF Listen, Hear, TakeOn, StartCall, Leave, StopCall, ClearCurrent, StartMonitoring,
              StopMonitoring, camera, Attended, Engaged
<1>7. Engaged(j)'
  <2>1. active' = j /\ ~Waits(j)'
    BY <1>3 DEF Attended, Engaged, Waits
  <2>2. \A k \in Jobs \ {j} : call'[k] = "no"
    <3>1. \A k \in Jobs \ {j} : k \in Notifier /\ k # n
      BY <1>1 DEF Notifier, Ctl, Jobs
    <3> QED  BY <1>5, <3>1 DEF Attended, Engaged
  <2>3. \A s \in Samplers : fpc'[s] \in Working => fjob'[s] = j
    BY <1>3 DEF Attended, Engaged
  <2> QED  BY <1>6, <2>1, <2>2, <2>3 DEF Engaged
<1>8. Unheard(j)'
  <2>1. CASE Past(j)
    BY <1>3, <2>1 DEF Unheard, Past
  <2>2. CASE ~Past(j)
    <3>1. call[n] \in {"no", "hear", "leave"} /\ status[j] # "PRINTING" /\ current # j
      BY <1>0, <1>1, <2>2 DEF Attended, Unheard
    <3>2. Hear(n) \/ Leave(n)
      BY <3>1 DEF Listen, TakeOn, StartCall, StopCall, ClearCurrent, At
    <3>3. call' = [call EXCEPT ![n] = "leave"] \/ call' = [call EXCEPT ![n] = "no"]
      BY <1>2, <3>1, <3>2 DEF Hear, Leave, Go
    <3>4. call'[n] \in {"no", "leave"} /\ UNCHANGED <<current, watching>>
      BY <3>2, <3>3 DEF Hear, Leave, camera
    <3> QED  BY <1>0, <1>1, <1>3, <1>5, <2>2, <3>4 DEF Attended, Unheard
  <2> QED  BY <2>1, <2>2
<1>9. Watched(j)'
  <2>0. Lost(j)' = Lost(j)
    BY <1>3 DEF Lost, Past
  <2>1. CASE Hear(n) \/ Leave(n)
    <3>1. call[n] \in {"hear", "leave"} /\ UNCHANGED <<current, watching>>
      BY <2>1 DEF Hear, Leave, At, camera
    <3> QED  BY <1>0, <1>1, <1>3, <1>5, <2>0, <3>1 DEF Attended, Watched
  <2>2. CASE TakeOn(n)
    <3>1. CASE current = j
      <4>1. call[n] = "print" /\ UNCHANGED <<current, watching>>
        BY <1>2, <2>2, <3>1 DEF TakeOn, At, camera
      <4> QED  BY <1>0, <1>1, <1>3, <1>5, <2>0, <4>1 DEF Attended, Watched
    <3>2. CASE current # j
      <4>1. call' = [call EXCEPT ![n] = "start"]
        BY <1>2, <2>2, <3>2 DEF TakeOn, Go
      <4>2. call'[n] = "start"
        BY <4>1
      <4> QED  BY <1>1, <1>3, <2>0, <4>2 DEF Attended, Watched
    <3> QED  BY <3>1, <3>2
  <2>3. CASE StartCall(n)
    <3>1. watching' = j
      BY <1>0, <1>2, <2>3 DEF StartCall, StartMonitoring, camera, Attended, Engaged
    <3> QED  BY <1>3, <2>0, <3>1 DEF Attended, Watched
  <2>4. CASE StopCall(n)
    <3>1. call' = [call EXCEPT ![n] = "clear"]
      BY <2>4 DEF StopCall, Go
    <3>2. call'[n] = "clear"
      BY <3>1
    <3> QED  BY <1>1, <1>3, <2>0, <3>2 DEF Attended, Watched
  <2>5. CASE ClearCurrent(n)
    <3>1. current' = NoJob
      BY <2>5 DEF ClearCurrent
    <3> QED  BY <1>0, <1>3, <2>0, <3>1 DEF Attended, Watched
  <2> QED  BY <2>1, <2>2, <2>3, <2>4, <2>5 DEF Listen
<1> QED  BY <1>7, <1>8, <1>9 DEF Attended

\* The dispatched threads: who stops the monitor has failed the job before.
LEMMA DispatchedAttended ==
  ASSUME Types, GuardInv, NEW j \in Jobs, Alone(j), Attended(j), NEW s \in Samplers, Dispatched(s)
  PROVE  Attended(j)'
<1> USE DEF Types, JobTypes, EventTypes, WatchTypes
<1>0. /\ fpc \in [Samplers -> Steps]
      /\ j # NoJob /\ active = j
  BY DEF GuardInv, Shape, Jobs, NoJob, Attended, Engaged
<1>1. UNCHANGED <<active, queue, status, pc, cancelEv, call, current>>
  BY DEF Dispatched, ReadJob, Evaluate, Compare, CheckCooldown, Intervene, DecisionLost, FailJob,
         StopAfterFail, jobs, evs, ctrl
<1>2. Past(j) /\ Past(j)'
  <2>1. fpc[s] # "idle"
    BY DEF Dispatched, ReadJob, Evaluate, Compare, CheckCooldown, Intervene, DecisionLost, FailJob,
           StopAfterFail
  <2> QED  BY <1>1, <2>1 DEF Attended, Unheard, Past
<1>3. /\ \A t \in Samplers \ {s} : fpc'[t] = fpc[t] /\ fjob'[t] = fjob[t]
      /\ fpc'[s] \in Working => fjob'[s] = j
      /\ watching' \in {NoJob, j}
  <2>1. watching \in {NoJob, j} /\ (fpc[s] \in Working => fjob[s] = j)
    BY DEF Attended, Engaged
  <2> QED  BY <2>1, Strides DEF GuardInv
<1>4. Engaged(j)'
  BY <1>1, <1>3 DEF Attended, Engaged, Waits
<1>5. Lost(j) => Lost(j)'
  <2>1. CASE FailJob(s)
    BY <1>1, <1>2, <2>1 DEF FailJob, Lost
  <2>2. CASE ~FailJob(s)
    <3>1. UNCHANGED failEv
      BY <2>2 DEF Dispatched, ReadJob, Evaluate, Compare, CheckCooldown, Intervene, DecisionLost,
                StopAfterFail, evs
    <3> QED  BY <1>1, <1>2, <3>1 DEF Lost
  <2> QED  BY <2>1, <2>2
<1>6. Watched(j)'
  <2>1. CASE FailJob(s)
    <3>1. fjob[s] = j /\ UNCHANGED watching
      BY <2>1 DEF FailJob, camera, Attended, Engaged, Working
    <3>2. failEv'[j] = TRUE
      BY <1>0, <2>1, <3>1 DEF FailJob
    <3> QED  BY <1>1, <3>1, <3>2 DEF Attended, Watched, Lost
  <2>2. CASE StopAfterFail(s)
    <3>1. Lost(j)'
      BY <1>5, <2>2 DEF StopAfterFail, Attended, Watched
    <3> QED  BY <3>1 DEF Watched
  <2>3. CASE ~FailJob(s) /\ ~StopAfterFail(s)
    <3>1. UNCHANGED watching /\ fpc'[s] # "stop"
      BY <1>0, <2>3 DEF Dispatched, ReadJob, Evaluate, Compare, CheckCooldown, Intervene,
                        DecisionLost, Over, Onward, camera
    <3> QED  BY <1>1, <1>3, <1>5, <3>1 DEF Attended, Watched
  <2> QED  BY <2>1, <2>2, <2>3
<1> QED  BY <1>2, <1>4, <1>6 DEF Attended, Unheard

\* Frames, ticks and the end of the cooldown.
LEMMA RestAttended ==
  ASSUME Types, GuardInv, NEW j \in Jobs, Alone(j), Attended(j),
         Tick \/ CooldownOver \/ UNCHANGED vars
  PROVE  Attended(j)'
<1>1. UNCHANGED <<active, queue, status, pc, cancelEv, failEv, call, current, watching, fjob>>
  BY DEF Tick, CooldownOver, vars, jobs, evs, ctrl, camera, threads
<1>2. CASE UNCHANGED fpc
  BY <1>1, <1>2 DEF Attended, Engaged, Unheard, Watched, Waits, Past, Lost
<1>3. CASE Tick
  <2>1. Past(j)
    BY <1>3 DEF Tick, Attended, Unheard
  <2>2. \A s \in Samplers : /\ fpc'[s] \in Working => fpc'[s] = fpc[s]
                            /\ fpc'[s] = "stop" => fpc[s] = "stop"
    BY <1>3 DEF Tick, GuardInv, Shape, Working
  <2> QED  BY <1>1, <2>1, <2>2 DEF Attended, Engaged, Unheard, Watched, Waits, Past, Lost
<1> QED  BY <1>2, <1>3 DEF CooldownOver, vars, threads

-----------------------------------------------------------------------------
\* Vision rests before the first job, and attends to it until another begins.
THEOREM FirstTheorem == Spec => []FirstInv
<1>1. Init => FirstInv
  <2> SUFFICES ASSUME Init PROVE FirstInv
    OBVIOUS
  <2>1. \A j \in Jobs : pc[j] = "none" /\ ~Waits(j)
    <3>1. DOMAIN <<>> = {}
      OBVIOUS
    <3> QED  BY <3>1 DEF Init, Waits
  <2>2. Blank
    BY DEF Init, Blank
  <2> QED  BY <2>1, <2>2 DEF FirstInv, Submitted, Alone
<1>2. Types /\ GuardInv /\ FirstInv /\ [Next]_vars => FirstInv'
  <2> SUFFICES ASSUME Types, GuardInv, FirstInv, [Next]_vars PROVE FirstInv'
    OBVIOUS
  <2>1. Submitted /\ Submitted'
    BY AloneBefore DEF FirstInv
  <2>2. (\A k \in Jobs : pc'[k] = "none") => Blank'
    BY <2>1, AloneBefore, BlankStep DEF FirstInv
  <2>3. ASSUME NEW j \in Jobs, Alone(j)' PROVE Attended(j)'
    <3>1. CASE (\A k \in Jobs : pc[k] = "none") /\ Submit(j)
      BY <3>1, FirstSubmit DEF FirstInv
    <3>2. CASE Alone(j)
      <4>1. Attended(j)
        BY <3>2 DEF FirstInv
      <4> QED
        BY <2>1, <2>3, <3>2, <4>1, StreamAttended, ControlAttended, ListenAttended,
           DispatchedAttended, RestAttended DEF Next
    <3> QED  BY <2>1, <2>3, <3>1, <3>2, AloneBefore
  <2> QED  BY <2>1, <2>2, <2>3 DEF FirstInv
<1> QED  BY <1>1, <1>2, TypesTheorem, GuardTheorem, PTL DEF Spec

\* However the calls of pause, resume and cancel cross the notifications, the
\* first job of a process is watched, or taken on at its next line.
THEOREM FirstPrintTheorem == Spec => []FirstPrintWatched
<1>1. FirstInv => FirstPrintWatched
  <2> SUFFICES ASSUME FirstInv, NEW j \in Jobs, Settled(j), \A k \in Jobs \ {j} : pc[k] = "none"
               PROVE  InView(j)
    BY DEF FirstPrintWatched
  <2>1. Attended(j)
    BY DEF FirstInv, Alone, Settled
  <2>2. ~Lost(j) /\ call[j] = "no" /\ call[Ctl] = "no"
    BY DEF Settled, Lost, Terminal, Notifier
  <2> QED  BY <2>1, <2>2 DEF Attended, Engaged, Watched, InView
<1> QED  BY <1>1, FirstTheorem, PTL
-----------------------------------------------------------------------------
(* Whom the counted failures are about.                                    *)

\* A job that waits has not been started, and waits once; one that was started
\* has the slot until it ends.
InLine ==
    /\ \A n \in DOMAIN queue : pc[queue[n]] = "none"
    /\ \A m, n \in DOMAIN queue : queue[m] = queue[n] => m = n
    /\ active \in Jobs => pc[active] # "none"
    /\ \A j \in Jobs : pc[j] \notin {"none", "done"} => active = j

\* A notifier that is about to start the monitor speaks of the active job.
Printing(j) == call[j] \in {"print", "start"} \/ (call[j] = "hear" /\ status[j] = "PRINTING")
Called ==
    /\ call[Ctl] # "no" => active # NoJob
    /\ \A j \in Jobs : pc[j] = "fire_done" => status[j] = "COMPLETED"
    /\ \A j \in Jobs : Printing(j) => active = j

\* Vision knows no job that was not started.
Unknown == \A j \in Jobs : pc[j] = "none" => watching # j /\ \A s \in Samplers : fjob[s] # j

\* Vision sees to the active job: it watches it, or has a frame of it in hand.
OnIt == active # NoJob /\ (watching = active \/ \E s \in Samplers : fpc[s] \in Working /\ fjob[s] = active)

\* If so, the sampler started last has been its own from the start.
Own ==
    OnIt => /\ watching \in {NoJob, active}
            /\ \A n \in DOMAIN recent : recent[n].by = sampler => recent[n].of = active
            /\ fpc[sampler] \in Working => fjob[sampler] = active

\* A thread that found the threshold crossed for the active job had the
\* failures for it, but for one of each other sampler.
Late == {"crossed", "cleared", "decided"}
Grounded ==
    \A s \in Samplers : fpc[s] \in Late /\ fjob[s] = active => grounds[s] + NumSamplers > Threshold

EvidenceInv == InLine /\ Called /\ Unknown /\ Own /\ Grounded

-----------------------------------------------------------------------------
\* The slot passes to a job that was not started before, or to nobody.
LEMMA InLineStep ==
  ASSUME Types, Submitted, InLine, [Next]_vars
  PROVE  /\ InLine'
         /\ UNCHANGED active \/ active' = NoJob \/ (active' \in Jobs /\ pc[active'] = "none")
<1> DEFINE Passes == UNCHANGED active \/ active' = NoJob \/ (active' \in Jobs /\ pc[active'] = "none")
<1>0. /\ pc \in [Jobs -> {"none", "begin", "starting", "top", "hold", "fire", "fire_done", "done"}]
      /\ queue \in Seq(Jobs) /\ active \in Jobs \cup {NoJob} /\ NoJob \notin Jobs
      /\ \A n \in DOMAIN queue : queue[n] \in Jobs
  <2>1. queue \in Seq(Jobs)
    BY DEF Types, JobTypes
  <2>2. \A n \in DOMAIN queue : queue[n] \in Jobs
    BY <2>1, ElementOfSeq, LenProperties
  <2> QED  BY <2>2 DEF Types, JobTypes, NoJob, Jobs
<1>1. ASSUME UNCHANGED <<pc, queue, active>> PROVE InLine' /\ Passes
  BY <1>1 DEF InLine
<1>2. ASSUME NEW j \in Jobs, Submit(j) PROVE InLine' /\ Passes
  <2>1. pc[j] = "none" /\ (\A n \in DOMAIN queue : queue[n] # j)
    BY <1>2 DEF Submit, Submitted, Waits
  <2>2. CASE active = NoJob
    <3>1. active' = j /\ queue' = queue /\ \A k \in Jobs : pc'[k] = IF k = j THEN "begin" ELSE pc[k]
      BY <1>0, <1>2, <2>2 DEF Submit, Goto
    <3> QED  BY <1>0, <2>1, <2>2, <3>1 DEF InLine
  <2>3. CASE active # NoJob
    <3>1. active' = active /\ pc' = pc /\ queue' = Append(queue, j)
      BY <1>2, <2>3 DEF Submit
    <3>2. /\ DOMAIN queue' = 1..(Len(queue) + 1) /\ DOMAIN queue = 1..Len(queue) /\ Len(queue) \in Nat
          /\ queue'[Len(queue) + 1] = j /\ \A n \in 1..Len(queue) : queue'[n] = queue[n]
      BY <1>0, <3>1, AppendProperties, LenProperties
    <3> QED  BY <2>1, <3>1, <3>2 DEF InLine
  <2> QED  BY <2>2, <2>3
<1>3. ASSUME NEW j \in Jobs,
             Begin(j) \/ MarkStarted(j) \/ Line(j) \/ LeaveHold(j) \/ LinesOver(j) \/ FailStop(j)
      PROVE  InLine' /\ Passes
  <2>1. PICK p \in {"starting", "top", "hold", "fire", "fire_done", "done"} :
             pc' = [pc EXCEPT ![j] = p]
    BY <1>3 DEF Begin, MarkStarted, Line, LeaveHold, LinesOver, FailStop, MarkAndTell, Goto
  <2>2. pc[j] \notin {"none", "done"} /\ UNCHANGED <<queue, active>>
    BY <1>3 DEF Begin, MarkStarted, Line, LeaveHold, LinesOver, FailStop, Moves
  <2>3. \A k \in Jobs : pc'[k] = IF k = j THEN p ELSE pc[k]
    BY <1>0, <2>1
  <2> QED  BY <1>0, <2>2, <2>3 DEF InLine
<1>4. ASSUME NEW j \in Jobs, Finish(j) PROVE InLine' /\ Passes
  <2>1. pc[j] \notin {"none", "done"} /\ active = j
    BY <1>4 DEF Finish, Moves, InLine
  <2>2. CASE queue = <<>>
    <3>1. active' = NoJob /\ queue' = queue /\ \A k \in Jobs : pc'[k] = IF k = j THEN "done" ELSE pc[k]
      BY <1>0, <1>4, <2>2 DEF Finish, Goto
    <3> QED  BY <1>0, <2>1, <3>1 DEF InLine
  <2>3. CASE queue # <<>>
    <3>1. /\ Head(queue) = queue[1] /\ 1 \in DOMAIN queue /\ active' = Head(queue) /\ queue' = Tail(queue)
          /\ \A n \in DOMAIN queue' : n + 1 \in DOMAIN queue /\ queue'[n] = queue[n + 1]
      <4>1. active' = Head(queue) /\ queue' = Tail(queue)
        BY <1>4, <2>3 DEF Finish
      <4>2. queue \in Seq(Jobs)
        BY <1>0
      <4>3. /\ 1 \in DOMAIN queue /\ Head(queue) = queue[1]
            /\ \A n \in DOMAIN Tail(queue) : n + 1 \in DOMAIN queue /\ Tail(queue)[n] = queue[n + 1]
        BY ONLY <2>3, <4>2, QueueOrder
      <4> QED  BY ONLY <4>1, <4>3
    <3>2. DOMAIN queue' \subseteq Nat \ {0}
      <4>1. queue' \in Seq(Jobs)
        BY <1>0, <2>3, <3>1, HeadTailProperties
      <4> QED  BY <4>1, LenProperties
    <3>3. Head(queue) \in Jobs /\ pc[Head(queue)] = "none" /\ Head(queue) # j
      BY <1>0, <2>1, <3>1 DEF InLine
    <3>4. \A k \in Jobs : pc'[k] = IF k = Head(queue) THEN "begin" ELSE IF k = j THEN "done" ELSE pc[k]
      BY <1>0, <1>4, <2>3, <3>3 DEF Finish
    <3>5. \A n \in DOMAIN queue' : queue'[n] \in Jobs /\ queue'[n] # Head(queue) /\ pc[queue'[n]] = "none"
      BY <1>0, <3>1, <3>2 DEF InLine
    <3>6. \A n \in DOMAIN queue' : pc'[queue'[n]] = "none"
      BY <2>1, <3>4, <3>5
    <3>7. \A m, n \in DOMAIN queue' : queue'[m] = queue'[n] => m = n
      BY <3>1, <3>2 DEF InLine
    <3>8. \A k \in Jobs : pc'[k] \notin {"none", "done"} => active' = k
      BY <2>1, <3>1, <3>4 DEF InLine
    <3> QED  BY <3>1, <3>3, <3>4, <3>6, <3>7, <3>8 DEF InLine
  <2> QED  BY <2>2, <2>3
<1>5. ASSUME NEW j \in Jobs, Pause(j) \/ Resume(j) \/ Cancel(j) PROVE UNCHANGED <<pc, queue, active>>
  BY <1>5 DEF Pause, Resume, Cancel
<1>6. ASSUME NEW n \in Notifier, Listen(n) PROVE UNCHANGED <<pc, queue, active>>
  BY <1>6 DEF Listen, Hear, TakeOn, StartCall, Leave, StopCall, ClearCurrent, jobs
<1>7. ASSUME NEW s \in Samplers, Dispatched(s) PROVE UNCHANGED <<pc, queue, active>>
  BY <1>7 DEF Dispatched, ReadJob, Evaluate, Compare, CheckCooldown, Intervene, DecisionLost, FailJob,
              StopAfterFail, jobs
<1>8. Tick \/ CooldownOver \/ UNCHANGED vars => UNCHANGED <<pc, queue, active>>
  BY DEF Tick, CooldownOver, vars, jobs
<1> HIDE DEF Passes
<1>9. InLine' /\ Passes
  BY <1>1, <1>2, <1>3, <1>4, <1>5, <1>6, <1>7, <1>8 DEF Next, Stream, Control
<1> QED  BY <1>9 DEF Passes

\* A notifier on the way to the monitor speaks of the job that has the slot.
LEMMA CalledStep ==
  ASSUME Types, InLine, Called, [Next]_vars
  PROVE  Called'
<1> USE DEF Printing
<1>0. /\ pc \in [Jobs -> {"none", "begin", "starting", "top", "hold", "fire", "fire_done", "done"}]
      /\ status \in [Jobs -> Ended \cup {"NONE", "QUEUED", "PRINTING"}]
      /\ call \in [Notifier -> {"no", "hear", "print", "start", "leave", "stop", "clear"}]
      /\ active \in Jobs \cup {NoJob} /\ queue \in Seq(Jobs)
      /\ NoJob \notin Jobs /\ Ctl \notin Jobs /\ Jobs \subseteq Notifier /\ Ctl \in Notifier
  BY DEF Types, JobTypes, WatchTypes, NoJob, Ctl, Jobs, Notifier
<1>1. ASSUME UNCHANGED <<jobs, ctrl>> PROVE Called'
  BY <1>1 DEF jobs, ctrl, Called
<1>2. ASSUME NEW j \in Jobs, Submit(j) PROVE Called'
  <2>1. /\ \A k \in Jobs : status'[k] = IF k = j THEN "QUEUED" ELSE status[k]
        /\ call' = call /\ call[Ctl] = "no"
    BY <1>0, <1>2 DEF Submit, Mark, ctrl, LockFree
  <2>2. CASE active = NoJob
    <3>1. active' = j /\ \A k \in Jobs : pc'[k] = IF k = j THEN "begin" ELSE pc[k]
      BY <1>0, <1>2, <2>2 DEF Submit, Goto
    <3>2. \A k \in Jobs : ~Printing(k)
      BY <1>0, <2>2 DEF Called
    <3>3. \A k \in Jobs : ~Printing(k)'
      BY <2>1, <3>2
    <3>4. \A k \in Jobs : pc'[k] = "fire_done" => status'[k] = "COMPLETED"
      BY <2>1, <3>1 DEF Called
    <3> QED  BY <2>1, <3>3, <3>4 DEF Called
  <2>3. CASE active # NoJob
    <3>1. active' = active /\ pc' = pc
      BY <1>2, <2>3 DEF Submit
    <3>2. status[j] = "NONE"
      BY <1>2 DEF Submit
    <3> QED  BY <2>1, <3>1, <3>2 DEF Called
  <2> QED  BY <2>2, <2>3
<1>3. ASSUME NEW j \in Jobs,
             Begin(j) \/ MarkStarted(j) \/ Line(j) \/ LeaveHold(j) \/ LinesOver(j) \/ FailStop(j)
      PROVE  Called'
  <2>1. /\ pc[j] \notin {"none", "done"} /\ UNCHANGED active
        /\ UNCHANGED call \/ call' = [call EXCEPT ![j] = "hear"]
    BY <1>3 DEF Begin, MarkStarted, Line, LeaveHold, LinesOver, FailStop, Moves, MarkAndTell, Tell,
                Go, ctrl
  <2>2. \A k \in Jobs \ {j} : status'[k] = status[k] /\ pc'[k] = pc[k]
    BY <1>0, <1>3 DEF Begin, MarkStarted, Line, LeaveHold, LinesOver, FailStop, MarkAndTell, Mark, Goto
  <2>3. pc'[j] = "fire_done" => status'[j] = "COMPLETED"
    BY <1>0, <1>3 DEF Begin, MarkStarted, Line, LeaveHold, LinesOver, FailStop, MarkAndTell, Mark, Goto
  <2>4. active = j
    BY <2>1 DEF InLine
  <2>5. call'[Ctl] = call[Ctl] /\ \A k \in Jobs \ {j} : call'[k] = call[k]
    BY <1>0, <2>1
  <2> QED  BY <2>1, <2>2, <2>3, <2>4, <2>5 DEF Called
<1>4. ASSUME NEW j \in Jobs, Finish(j) PROVE Called'
  <2>1. /\ pc[j] \in {"fire", "fire_done"} /\ call[j] = "no" /\ call[Ctl] = "no" /\ UNCHANGED status
        /\ (pc[j] = "fire" /\ UNCHANGED call) \/ (pc[j] = "fire_done" /\ call' = [call EXCEPT ![j] = "hear"])
    BY <1>4 DEF Finish, Moves, LockFree, Tell, Go
  <2>2. active = j
    BY <2>1 DEF InLine
  <2>3. \A k \in Jobs \ {j} : ~Printing(k) /\ ~Printing(k)'
    BY <1>0, <2>1, <2>2 DEF Called
  <2>4. ~Printing(j)'
    BY <1>0, <2>1 DEF Called
  <2>5. \A k \in Jobs : pc'[k] = "fire_done" => pc[k] = "fire_done"
    <3>1. CASE queue = <<>>
      BY <1>0, <1>4, <3>1 DEF Finish, Goto
    <3>2. CASE queue # <<>>
      <4>1. pc' = [pc EXCEPT ![j] = "done", ![Head(queue)] = "begin"]
        BY <1>4, <3>2 DEF Finish
      <4> QED  BY <1>0, <4>1
    <3> QED  BY <3>1, <3>2
  <2>6. call'[Ctl] = "no"
    BY <1>0, <2>1
  <2> QED  BY <2>1, <2>3, <2>4, <2>5, <2>6 DEF Called
<1>5. ASSUME NEW j \in Jobs, Pause(j) \/ Resume(j) \/ Cancel(j) PROVE Called'
  <2>1. /\ active = j /\ UNCHANGED <<active, pc>>
        /\ UNCHANGED call \/ call' = [call EXCEPT ![Ctl] = "hear"]
    BY <1>5 DEF Pause, Resume, Cancel, Calls, Tell, Go
  <2>2. \A k \in Jobs \ {j} : status'[k] = status[k]
    BY <1>0, <1>5 DEF Pause, Resume, Cancel, Mark
  <2>3. status[j] = "COMPLETED" => status'[j] = "COMPLETED"
    BY <1>0, <1>5 DEF Pause, Resume, Cancel, Terminal
  <2>4. \A k \in Jobs : call'[k] = call[k]
    BY <1>0, <2>1
  <2> QED  BY <1>0, <2>1, <2>2, <2>3, <2>4 DEF Called
<1>6. ASSUME NEW n \in Notifier, Listen(n) PROVE Called'
  <2>1. UNCHANGED <<active, queue, status, pc>> /\ call[n] # "no"
    BY <1>6 DEF Listen, Hear, TakeOn, StartCall, Leave, StopCall, ClearCurrent, jobs, At
  <2>2. \A m \in Notifier \ {n} : call'[m] = call[m]
    BY <1>0, <1>6 DEF Listen, Hear, TakeOn, StartCall, Leave, StopCall, ClearCurrent, Go
  <2>3. n \in Jobs /\ Printing(n)' => Printing(n)
    <3>1. Subject(n) = n \/ n = Ctl
      BY DEF Subject
    <3> QED
      BY <1>0, <1>6, <2>1, <3>1 DEF Listen, Hear, TakeOn, StartCall, Leave, StopCall, ClearCurrent,
                Go, At
  <2>4. \A k \in Jobs : Printing(k)' => Printing(k)
    BY <1>0, <2>1, <2>2, <2>3
  <2>5. call'[Ctl] # "no" => call[Ctl] # "no"
    BY <1>0, <2>1, <2>2
  <2> QED  BY <2>1, <2>4, <2>5 DEF Called
<1>7. ASSUME NEW s \in Samplers, Dispatched(s) PROVE UNCHANGED <<jobs, ctrl>>
  BY <1>7 DEF Dispatched, ReadJob, Evaluate, Compare, CheckCooldown, Intervene, DecisionLost, FailJob,
              StopAfterFail
<1>8. Tick \/ CooldownOver \/ UNCHANGED vars => UNCHANGED <<jobs, ctrl>>
  BY DEF Tick, CooldownOver, vars
<1> QED
  BY <1>1, <1>2, <1>3, <1>4, <1>5, <1>6, <1>7, <1>8 DEF Next, Stream, Control

\* The monitor is started for the active job only.
LEMMA StartsActive ==
  ASSUME Types, Called, NEW n \in Notifier, StartCall(n)
  PROVE  Subject(n) = active /\ active \in Jobs
<1>1. call[n] = "start" /\ active \in Jobs \cup {NoJob}
  BY DEF StartCall, At, Types, JobTypes
<1>2. CASE n = Ctl
  BY <1>1, <1>2 DEF Called, Subject
<1>3. CASE n # Ctl
  <2>1. n \in Jobs
    BY <1>3 DEF Notifier
  <2> QED  BY <1>1, <1>3, <2>1 DEF Called, Printing, Subject
<1> QED  BY <1>2, <1>3

\* What vision looks at changes in few steps, the slot in others.
LEMMA Keeps ==
  ASSUME [Next]_vars
  PROVE  \/ UNCHANGED <<active, camera, threads, recent>>
         \/ UNCHANGED <<camera, threads, recent>> /\ \E j \in Jobs : Submit(j) \/ Finish(j)
         \/ UNCHANGED <<active, threads>> /\ \E n \in Notifier : StartCall(n)
         \/ UNCHANGED <<active, threads, sampler, recent>> /\ watching' = NoJob
         \/ UNCHANGED active /\ \E s \in Samplers : Dispatched(s)
         \/ UNCHANGED <<active, camera, fjob, grounds, recent>> /\ Tick
<1>1. ASSUME NEW j \in Jobs, Stream(j) \/ Control(j)
      PROVE  UNCHANGED <<camera, threads, recent>> /\ (UNCHANGED active \/ Submit(j) \/ Finish(j))
  BY <1>1 DEF Stream, Control, Begin, MarkStarted, Line, LeaveHold, LinesOver, FailStop, Finish,
              Submit, Pause, Resume, Cancel, guard
<1>2. ASSUME NEW n \in Notifier, Listen(n)
      PROVE  \/ UNCHANGED <<active, camera, threads, recent>>
             \/ UNCHANGED <<active, threads>> /\ StartCall(n)
             \/ UNCHANGED <<active, threads, sampler, recent>> /\ watching' = NoJob
  BY <1>2 DEF Listen, Hear, TakeOn, StartCall, Leave, StopCall, StopMonitoring, ClearCurrent, jobs,
              camera, guard
<1>3. ASSUME NEW s \in Samplers, Dispatched(s) PROVE UNCHANGED active
  BY <1>3 DEF Dispatched, ReadJob, Evaluate, Compare, CheckCooldown, Intervene, DecisionLost, FailJob,
              StopAfterFail, jobs
<1>4. Tick => UNCHANGED <<active, camera, fjob, grounds, recent>>
  BY DEF Tick, jobs, guard
<1>5. CooldownOver \/ UNCHANGED vars => UNCHANGED <<active, camera, threads, recent>>
  BY DEF CooldownOver, vars, jobs, guard
<1> QED  BY <1>1, <1>2, <1>3, <1>4, <1>5 DEF Next

\* Vision hears of a job when its executor speaks or is spoken for.
LEMMA UnknownStep ==
  ASSUME Types, GuardInv, Submitted, EvidenceInv, [Next]_vars
  PROVE  Unknown'
<1> SUFFICES ASSUME NEW j \in Jobs, pc'[j] = "none"
             PROVE  watching' # j /\ \A s \in Samplers : fjob'[s] # j
  BY DEF Unknown
<1>0. /\ pc[j] = "none" /\ watching # j /\ (\A s \in Samplers : fjob[s] # j)
      /\ j # NoJob /\ fjob \in [Samplers -> Jobs \cup {NoJob}]
  BY AloneBefore DEF EvidenceInv, Unknown, Types, WatchTypes, NoJob, Jobs
<1>1. CASE UNCHANGED <<camera, threads>>
  BY <1>0, <1>1 DEF camera, threads
<1>2. ASSUME UNCHANGED threads, NEW n \in Notifier, StartCall(n)
      PROVE  watching' # j /\ \A s \in Samplers : fjob'[s] # j
  <2>1. pc[Subject(n)] # "none"
    BY <1>2, StartsActive DEF EvidenceInv, InLine
  <2>2. watching' \in {watching, Subject(n)}
    BY <1>2 DEF StartCall, StartMonitoring, camera
  <2> QED  BY <1>0, <1>2, <2>1, <2>2 DEF threads
<1>3. CASE UNCHANGED threads /\ watching' = NoJob
  BY <1>0, <1>3 DEF threads
<1>4. ASSUME NEW s \in Samplers, Dispatched(s)
      PROVE  watching' # j /\ \A t \in Samplers : fjob'[t] # j
  <2>1. watching' \in {watching, NoJob}
    BY <1>4, Strides DEF GuardInv
  <2>2. UNCHANGED fjob \/ \E x \in {watching, NoJob} : fjob' = [fjob EXCEPT ![s] = x]
    BY <1>4 DEF Dispatched, ReadJob, Evaluate, Compare, CheckCooldown, Intervene, DecisionLost,
                FailJob, StopAfterFail, Over, Onward
  <2> QED  BY <1>0, <2>1, <2>2
<1>5. CASE Tick
  BY <1>0, <1>5 DEF Tick, camera
<1> QED  BY <1>1, <1>2, <1>3, <1>4, <1>5, Keeps

\* The run of failures after a step of a dispatched thread: entries it had,
\* and one by that thread about the job it has in hand.
LEMMA RunStep ==
  ASSUME Types, GuardInv, NEW s \in Samplers, Dispatched(s), NEW k \in DOMAIN recent'
  PROVE  \/ \E n \in DOMAIN recent : recent'[k] = recent[n]
         \/ recent'[k].by = s /\ recent'[k].of = fjob[s] /\ fpc[s] \in Working
<1>1. CASE UNCHANGED recent
  BY <1>1
<1>2. CASE recent' = <<>>
  <2>1. DOMAIN <<>> = {}
    OBVIOUS
  <2> QED  BY <1>2, <2>1
<1>3. ASSUME NEW v \in Verdicts, Evaluate(s, v), v = "FAIL"
      PROVE  \/ \E n \in DOMAIN recent : recent'[k] = recent[n]
             \/ recent'[k].by = s /\ recent'[k].of = fjob[s] /\ fpc[s] \in Working
  <2> DEFINE x == [by |-> s, of |-> fjob[s]]
  <2>1. x \in Results /\ x.by = s /\ x.of = fjob[s] /\ fpc[s] \in Working
    BY <1>3 DEF Evaluate, GuardInv, Shape, Working, Results
  <2>2. recent' = IF Len(Append(recent, x)) > Threshold THEN Tail(Append(recent, x))
                  ELSE Append(recent, x)
    BY <1>3 DEF Evaluate, Noted
  <2> HIDE DEF x
  <2>3. Appended(recent', recent, x, Threshold)
    <3>1. recent \in Seq(Results) /\ Threshold \in Nat \ {0}
      BY ThresholdAssumption DEF GuardInv, Shape
    <3> QED  BY ONLY <2>1, <2>2, <3>1, WindowFacts
  <2> QED  BY <2>1, <2>3 DEF Appended
<1>4. UNCHANGED recent \/ recent' = <<>> \/ \E v \in Verdicts : Evaluate(s, v) /\ v = "FAIL"
  BY DEF Dispatched, ReadJob, Evaluate, Compare, CheckCooldown, Intervene, DecisionLost, FailJob,
         StopAfterFail, guard, Noted, Verdicts
<1> QED  BY <1>1, <1>2, <1>3, <1>4

\* A slot that has passed on holds a job that vision has not heard of.
LEMMA PassedOn ==
  ASSUME Types, GuardInv, Unknown, UNCHANGED <<camera, threads, recent>>,
         active' = NoJob \/ (active' \in Jobs /\ pc[active'] = "none")
  PROVE  Own' /\ Grounded'
<1>1. UNCHANGED <<watching, sampler, fpc, fjob, grounds, recent>>
  BY DEF camera, threads
<1>2. ~OnIt'
  BY <1>1 DEF OnIt, Unknown
<1>3. \A s \in Samplers : ~(fpc'[s] \in Late /\ fjob'[s] = active')
  BY <1>1 DEF Unknown, GuardInv, Shape, Working, Late, NoJob, Jobs
<1> QED  BY <1>2, <1>3 DEF Own, Grounded

\* The watch of the active job has a sampler and a run of failures to itself.
LEMMA OwnStep ==
  ASSUME Types, GuardInv, Submitted, EvidenceInv, [Next]_vars
  PROVE  Own'
<1>0. /\ Unknown /\ Own /\ Called /\ active \in Jobs \cup {NoJob}
      /\ watching \in Jobs \cup {NoJob} /\ NoJob \notin Jobs
  BY DEF EvidenceInv, Types, JobTypes, WatchTypes, NoJob, Jobs
<1>1. CASE UNCHANGED <<active, camera, threads, recent>>
  BY <1>0, <1>1 DEF Own, OnIt, camera, threads
<1>2. CASE UNCHANGED <<camera, threads, recent>> /\ ~(UNCHANGED active)
  BY <1>0, <1>2, InLineStep, PassedOn DEF EvidenceInv
<1>3. ASSUME UNCHANGED <<active, threads>>, NEW n \in Notifier, StartCall(n) PROVE Own'
  <2>1. CASE UNCHANGED <<camera, guard>>
    BY <1>1, <1>3, <2>1 DEF guard
  <2>2. CASE sampler' \in {s \in Samplers : fpc[s] = "idle"} /\ watching' = Subject(n) /\ Reset
    <3>1. watching' = active' /\ fpc'[sampler'] = "idle" /\ recent' = <<>>
      BY <1>3, <2>2, StartsActive, <1>0 DEF Reset, threads
    <3>2. DOMAIN recent' = {}
      BY <3>1
    <3> QED  BY <3>1, <3>2 DEF Own, Working
  <2> QED  BY <1>3, <2>1, <2>2 DEF StartCall, StartMonitoring
<1>4. CASE UNCHANGED <<active, threads, sampler, recent>> /\ watching' = NoJob
  BY <1>0, <1>4 DEF Own, OnIt, threads
<1>5. ASSUME UNCHANGED active, NEW s \in Samplers, Dispatched(s) PROVE Own'
  <2>0. /\ UNCHANGED sampler /\ watching' \in {watching, NoJob}
        /\ \A t \in Samplers \ {s} : fpc'[t] = fpc[t] /\ fjob'[t] = fjob[t]
        /\ fpc'[s] \in Working =>
               \/ fpc[s] \in Working /\ fjob'[s] = fjob[s]
               \/ watching # NoJob /\ fjob'[s] = watching
    BY <1>5, Strides DEF GuardInv
  <2>1. OnIt' => OnIt
    BY <1>0, <1>5, <2>0 DEF OnIt
  <2> SUFFICES ASSUME OnIt', OnIt
               PROVE  /\ watching' \in {NoJob, active}
                      /\ \A n \in DOMAIN recent' : recent'[n].by = sampler => recent'[n].of = active
                      /\ fpc'[sampler] \in Working => fjob'[sampler] = active
    BY <1>5, <2>0, <2>1 DEF Own
  <2>2. /\ watching \in {NoJob, active} /\ (fpc[sampler] \in Working => fjob[sampler] = active)
        /\ \A n \in DOMAIN recent : recent[n].by = sampler => recent[n].of = active
    BY <1>0 DEF Own
  <2>3. fpc'[sampler] \in Working => fjob'[sampler] = active
    BY <2>0, <2>2 DEF GuardInv, Shape
  <2>4. ASSUME NEW n \in DOMAIN recent', recent'[n].by = sampler PROVE recent'[n].of = active
    BY <1>5, <2>2, <2>4, RunStep
  <2> QED  BY <2>0, <2>2, <2>3, <2>4
<1>6. CASE UNCHANGED <<active, camera, fjob, recent>> /\ Tick
  <2>1. \A t \in Samplers : fpc'[t] \in Working => fpc[t] \in Working
    BY <1>6 DEF Tick, GuardInv, Shape, Working
  <2>2. sampler \in Samplers
    BY DEF GuardInv, Shape
  <2> QED  BY <1>0, <1>6, <2>1, <2>2 DEF Own, OnIt, camera
<1> QED  BY <1>1, <1>2, <1>3, <1>4, <1>5, <1>6, Keeps DEF threads

\* A full run of failures, seen by a thread of the active job, is about that
\* job but for one failure of each other sampler.
LEMMA RunIsAbout ==
  ASSUME Types, GuardInv, Own, NEW s \in Samplers, fpc[s] \in Working, fjob[s] = active,
         failures = Threshold
  PROVE  About(active) + NumSamplers > Threshold
<1> DEFINE D      == DOMAIN recent
           Mine   == {i \in D : recent[i].of = active}
           Others == {i \in D : recent[i].of # active}
           Rest   == Samplers \ {sampler}
           by     == [i \in Others |-> recent[i].by]
<1>0. /\ recent \in Seq(Results) /\ D = 1..Len(recent) /\ Len(recent) \in Nat
      /\ Len(recent) >= Threshold /\ Threshold \in Nat /\ NumSamplers \in Nat \ {0}
      /\ sampler \in Samplers
  BY LenProperties, ThresholdAssumption, SamplersAssumption DEF GuardInv, Shape, Backed
<1>1. OnIt
  <2>1. active \in Jobs
    BY DEF GuardInv, Shape
  <2> QED  BY <2>1 DEF OnIt, NoJob, Jobs
<1>2. \A i \in D : recent[i] \in Results
  BY <1>0, ElementOfSeq
<1>3. by \in [Others -> Rest]
  BY <1>1, <1>2 DEF Own, Results
<1>4. \A i, k \in Others : by[i] = by[k] => i = k
  BY <1>3 DEF GuardInv, OneVote
<1>5. IsFiniteSet(Rest) /\ Cardinality(Rest) = NumSamplers - 1
  <2>1. IsFiniteSet(Samplers) /\ Cardinality(Samplers) = NumSamplers
    BY <1>0, UpTo DEF Samplers
  <2>2. IsFiniteSet(Rest) /\ Cardinality(Rest) = Cardinality(Samplers) - 1
    BY <1>0, <2>1, FS_RemoveElement
  <2> QED  BY <2>1, <2>2
<1>6. IsFiniteSet(D) /\ Cardinality(D) = Len(recent)
  BY <1>0, UpTo
<1>7. /\ IsFiniteSet(Others) /\ Cardinality(Others) \in Nat
      /\ IsFiniteSet(Mine) /\ Cardinality(Mine) \in Nat
  <2>1. Others \subseteq D /\ Mine \subseteq D
    OBVIOUS
  <2> HIDE DEF D, Others, Mine
  <2> QED  BY ONLY <1>6, <2>1, FS_Subset, FS_CardinalityType
<1>8. Cardinality(Others) <= NumSamplers - 1
  <2> SUFFICES ASSUME Cardinality(Rest) < Cardinality(Others) PROVE FALSE
    BY <1>0, <1>5, <1>7
  <2>1. by \in [Others -> Rest] /\ IsFiniteSet(Rest) /\ IsFiniteSet(Others)
    BY <1>3, <1>5, <1>7
  <2> HIDE DEF by, Others, Rest
  <2>2. \E i, k \in Others : i # k /\ by[i] = by[k]
    BY <2>1, FS_PigeonHole
  <2> QED  BY <1>4, <2>2
<1>9. Cardinality(Mine) + Cardinality(Others) = Cardinality(D)
  <2>1. Mine = D \ Others /\ D \cap Others = Others
    OBVIOUS
  <2> HIDE DEF D, Others, Mine
  <2>2. Cardinality(D \ Others) = Cardinality(D) - Cardinality(D \cap Others)
    BY <1>6, FS_Difference
  <2>3. Cardinality(Mine) = Cardinality(D) - Cardinality(Others)
    BY <2>1, <2>2
  <2>4. Cardinality(D) \in Nat
    BY <1>6, FS_CardinalityType
  <2> QED  BY ONLY <1>7, <2>3, <2>4
<1>10. About(active) = Cardinality(Mine)
  BY DEF About
<1> HIDE DEF Mine, Others, D
<1> QED  BY <1>0, <1>6, <1>7, <1>8, <1>9, <1>10

\* What a thread goes on is what it found when it compared.
LEMMA GroundedStep ==
  ASSUME Types, GuardInv, Submitted, EvidenceInv, [Next]_vars
  PROVE  Grounded'
<1>0. /\ Unknown /\ Own /\ Grounded
      /\ fpc \in [Samplers -> Steps] /\ fjob \in [Samplers -> Jobs \cup {NoJob}]
      /\ grounds \in [Samplers -> 0..Threshold] /\ Late \subseteq Working
  BY DEF EvidenceInv, Types, WatchTypes, GuardInv, Shape, Late, Working
<1>1. CASE UNCHANGED <<active, threads>>
  BY <1>0, <1>1 DEF Grounded, threads
<1>2. CASE UNCHANGED <<camera, threads, recent>> /\ ~(UNCHANGED active)
  BY <1>0, <1>2, InLineStep, PassedOn DEF EvidenceInv
<1>3. ASSUME UNCHANGED active, NEW s \in Samplers, Dispatched(s) PROVE Grounded'
  <2>1. ASSUME NEW t \in Samplers \ {s}
        PROVE  fpc'[t] = fpc[t] /\ fjob'[t] = fjob[t] /\ grounds'[t] = grounds[t]
    <3>1. fpc'[t] = fpc[t] /\ fjob'[t] = fjob[t]
      BY <1>3, Strides DEF GuardInv
    <3>2. UNCHANGED grounds \/ \E g \in Nat : grounds' = [grounds EXCEPT ![s] = g]
      <4>1. About(fjob[s]) \in Nat
        BY AboutBound, ThresholdAssumption DEF GuardInv
      <4> QED
        BY <1>3, <4>1 DEF Dispatched, ReadJob, Evaluate, Compare, CheckCooldown, Intervene,
                          DecisionLost, FailJob, StopAfterFail, Over
    <3> QED  BY <1>0, <3>1, <3>2
  <2>2. ASSUME fpc'[s] \in Late, fjob'[s] = active PROVE grounds'[s] + NumSamplers > Threshold
    <3>1. CASE Compare(s)
      <4>1. fpc[s] = "counted" /\ ~Over(s)
        BY <1>0, <2>2, <3>1 DEF Compare, Over, Late
      <4>2. /\ failures = Threshold /\ UNCHANGED fjob
            /\ grounds' = [grounds EXCEPT ![s] = About(fjob[s])]
        BY <3>1, <4>1 DEF Compare, Onward
      <4>3. About(active) + NumSamplers > Threshold
        BY <1>0, <2>2, <4>1, <4>2, RunIsAbout DEF Working
      <4> QED  BY <1>0, <2>2, <4>2, <4>3
    <3>2. CASE ~Compare(s)
      <4>1. fpc[s] \in Late /\ UNCHANGED <<fjob, grounds>>
        BY <1>0, <1>3, <2>2, <3>2 DEF Dispatched, ReadJob, Evaluate, CheckCooldown, Intervene,
              DecisionLost, FailJob, StopAfterFail, Over, Onward, Late
      <4> QED  BY <1>0, <2>2, <4>1 DEF Grounded
    <3> QED  BY <3>1, <3>2
  <2> QED  BY <1>0, <1>3, <2>1, <2>2 DEF Grounded
<1>4. CASE UNCHANGED <<active, camera, fjob, grounds, recent>> /\ Tick
  <2>1. \A t \in Samplers : fpc'[t] \in Late => fpc[t] \in Late
    BY <1>0, <1>4 DEF Tick, Late
  <2> QED  BY <1>0, <1>4, <2>1 DEF Grounded
<1> QED  BY <1>1, <1>2, <1>3, <1>4, Keeps

\* What the failures behind a decision are about, whoever shares the guard.
THEOREM EvidenceInvTheorem == Spec => []EvidenceInv
<1>1. Init => EvidenceInv
  <2> SUFFICES ASSUME Init PROVE EvidenceInv
    OBVIOUS
  <2>1. DOMAIN queue = {} /\ active = NoJob /\ NoJob \notin Jobs
    BY DEF Init, NoJob, Jobs
  <2>2. InLine /\ Own
    BY <2>1 DEF Init, InLine, Own, OnIt
  <2>3. Called
    BY DEF Init, Called, Printing, Notifier, Ctl, Jobs
  <2>4. Unknown /\ Grounded
    BY <2>1 DEF Init, Unknown, Grounded, Late
  <2> QED  BY <2>2, <2>3, <2>4 DEF EvidenceInv
<1>2. Types /\ GuardInv /\ FirstInv /\ EvidenceInv /\ [Next]_vars => EvidenceInv'
  <2> SUFFICES ASSUME Types, GuardInv, Submitted, EvidenceInv, [Next]_vars PROVE EvidenceInv'
    BY DEF FirstInv
  <2>1. InLine' /\ Called'
    BY InLineStep, CalledStep DEF EvidenceInv
  <2> QED  BY <2>1, UnknownStep, OwnStep, GroundedStep DEF EvidenceInv
<1> QED  BY <1>1, <1>2, TypesTheorem, GuardTheorem, FirstTheorem, PTL DEF Spec

\* Two threads may meet in the guard, and a reset may come between: vision
\* fails a job only on failures seen of it, but for one of each other sampler.
THEOREM EvidenceTheorem == Spec => FailedOnEvidence
<1> DEFINE Founded ==
      \A j \in Jobs : failEv'[j] /\ ~failEv[j] =>
          \E s \in Samplers : /\ fpc[s] = "decided" /\ fjob[s] = j
                              /\ grounds[s] >= Threshold - (NumSamplers - 1)
<1>1. Types /\ GuardInv /\ EvidenceInv /\ [Next]_vars => [Founded]_vars
  <2> SUFFICES ASSUME Types, GuardInv, EvidenceInv, Next, NEW j \in Jobs, failEv'[j], ~failEv[j]
               PROVE  \E s \in Samplers : /\ fpc[s] = "decided" /\ fjob[s] = j
                                          /\ grounds[s] >= Threshold - (NumSamplers - 1)
    OBVIOUS
  <2>0. failEv \in [Jobs -> BOOLEAN]
    BY DEF Types, EventTypes
  <2>1. \E s \in Samplers : FailJob(s)
    <3>1. failEv' # failEv /\ ~(\E k \in Jobs : failEv' = [failEv EXCEPT ![k] = FALSE])
      BY <2>0
    <3>2. ASSUME NEW k \in Jobs, Stream(k) \/ Control(k) PROVE FALSE
      BY <3>1, <3>2 DEF Stream, Control, Begin, MarkStarted, Line, LeaveHold, LinesOver, FailStop,
                        Finish, Submit, Pause, Resume, Cancel, evs
    <3>3. ASSUME NEW n \in Notifier, Listen(n) PROVE FALSE
      BY <3>1, <3>3 DEF Listen, Hear, TakeOn, StartCall, Leave, StopCall, ClearCurrent, evs
    <3>4. ~Tick /\ ~CooldownOver
      BY <3>1 DEF Tick, CooldownOver, evs
    <3>5. ASSUME NEW s \in Samplers, Dispatched(s) PROVE FailJob(s)
      BY <3>1, <3>5 DEF Dispatched, ReadJob, Evaluate, Compare, CheckCooldown, Intervene,
                        DecisionLost, StopAfterFail, evs
    <3> QED  BY <3>2, <3>3, <3>4, <3>5 DEF Next
  <2>2. PICK s \in Samplers : FailJob(s)
    BY <2>1
  <2>3. fpc[s] = "decided" /\ active = fjob[s] /\ fjob[s] = j
    BY <2>0, <2>2 DEF FailJob
  <2>4. grounds[s] + NumSamplers > Threshold
    BY <2>3 DEF EvidenceInv, Grounded, Late
  <2>5. grounds[s] \in Nat
    BY ThresholdAssumption DEF GuardInv, Shape
  <2> QED  BY <2>3, <2>4, <2>5, ThresholdAssumption, SamplersAssumption
<1> QED
  BY <1>1, TypesTheorem, GuardTheorem, EvidenceInvTheorem, PTL DEF Spec, FailedOnEvidence

=============================================================================
