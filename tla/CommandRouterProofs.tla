------------------------ MODULE CommandRouterProofs ------------------------
(***************************************************************************)
(* Proofs about CommandRouter and the MqttClient below it, for any number  *)
(* of commands and reports, any capacity of the outbox, any number of lost *)
(* connections: no message is handed over twice or in the wrong order, and *)
(* what the cloud is told of a command is true.                            *)
(***************************************************************************)
EXTENDS CommandRouter, SequenceTheorems, FiniteSetTheorems, TLAPS

-----------------------------------------------------------------------------
(* The invariants.                                                         *)

Busy   == {"direct", "put", "full", "again"}
Talking == {"QUEUED", "EXECUTING", "SUCCESS", "ERROR", "EXCEPTION"}

\* What has left its publisher, wherever it is now.
Placed == (given \cup lost \cup Waiting) \ {NoMessage}

\* A publisher's last message is its own, and goes with where its thread is.
OwnMessage(p) == /\ arg[p] # NoMessage => arg[p].src = p
                 /\ at[p] # "idle" => arg[p] # NoMessage

CallOf(c) ==
    /\ stage[c] \in {"unborn", "refused"} => at[c] = "idle" /\ arg[c] = NoMessage
    /\ stage[c] \in Talking => at[c] # "idle" /\ arg[c] = Said(c, stage[c])
    /\ stage[c] = "sending" => at[c] = "returned" /\ arg[c] = Said(c, "EXECUTING")
    /\ stage[c] = "over" => at[c] = "idle"

Calls ==
    /\ \A p \in Publishers : OwnMessage(p)
    /\ \A c \in Commands : CallOf(c)
    /\ arg[JobReporter].no = reports
    /\ at[JobReporter] = "idle" => reports \in {0, NumReports}

\* The drain thread is started with the connect loop.
Started == dial = "off" => drain = "off"

RouterInv == TypeOK /\ Calls /\ Started

\* A publisher's messages are numbered upwards: what it has placed is not
\* newer than the message it is at, which is not placed while it is busy.
Numbered ==
    /\ \A m \in Placed : m.no <= arg[m.src].no
    /\ \A p \in Publishers : at[p] \in Busy => arg[p] \notin Placed

\* The backlog of one publisher, oldest first.
Rising(q) == \A i, j \in DOMAIN q : i < j /\ q[i].src = q[j].src => q[i].no < q[j].no
HeldFirst == \A m \in Range(outbox) : held.src = m.src => held.no < m.no

\* A message is at one place.
Apart ==
    /\ given \cap Waiting = {}
    /\ lost \cap (given \cup Waiting) = {}

UplinkInv == RouterInv /\ Numbered /\ Rising(outbox) /\ HeldFirst /\ Apart

\* What the messages of a command say of it.
Truthful ==
    \A c \in Commands :
       /\ stage[c] = "SUCCESS" \/ Said(c, "SUCCESS") \in Placed => result[c] = "OK"
       /\ stage[c] = "ERROR" \/ Said(c, "ERROR") \in Placed => result[c] = "notOK"
       /\ at[c] = "raised" => arg[c] \in lost
       /\ stage[c] = "EXCEPTION" \/ Said(c, "EXCEPTION") \in Placed
             => \E w \in {"SUCCESS", "ERROR"} : Said(c, w) \in lost

AnswerInv == UplinkInv /\ Truthful

\* A publisher the connection did not come up on in its midst: as long as it
\* talks, the connection is down while something of it waits; whatever waits
\* is newer than what paho has.
WaitsFor(p) == {m \in Waiting \ {NoMessage} : m.src = p}
Uncrossed(p) ==
    /\ at[p] # "idle" /\ (at[p] \in Busy \ {"direct"} \/ WaitsFor(p) # {})
          => ~connected
    /\ at[p] = "direct" => WaitsFor(p) = {}
    /\ \A m \in WaitsFor(p) : newest[p] < m.no

\* newest is what its name says.
Recorded == \A p \in Publishers : newest[p] = 0 \/ [src |-> p, no |-> newest[p]] \in given

OrderInv ==
    /\ UplinkInv /\ Recorded
    /\ \A p \in Publishers \ crossed : Uncrossed(p)
    /\ OrderedUnlessCrossed

-----------------------------------------------------------------------------
(* Messages and backlogs.                                                  *)

\* The numbers of a command's answers, in the order of the code.
LEMMA NumberFacts ==
  /\ Number["QUEUED"] = 1 /\ Number["EXECUTING"] = 2 /\ Number["SUCCESS"] = 3
  /\ Number["ERROR"] = 4 /\ Number["EXCEPTION"] = 5
  BY DEF Number

\* What a command says is a message; no message is taken for none.
LEMMA MessageFacts ==
  /\ NoMessage \notin Messages
  /\ \A c \in Commands, w \in Talking : Said(c, w) \in Messages
  /\ \A n \in 1..NumReports : [src |-> JobReporter, no |-> n] \in Messages
  /\ \A m \in Messages : m.src \in Publishers /\ m.no \in 1..NumWords /\ m.no \in Nat
<1>1. NumWords \in Nat /\ NumReports \in 0..NumWords /\ NumWords >= 5
  BY BoundsAssumption, WordsAssumption
<1>2. NoMessage \notin Messages
  BY DEF NoMessage, Messages
<1>3. ASSUME NEW c \in Commands, NEW w \in Talking PROVE Said(c, w) \in Messages
  <2>1. Number[w] \in 1..NumWords
    BY <1>1, NumberFacts DEF Talking
  <2> QED  BY <2>1, PublishersAssumption DEF Said, Messages
<1>4. ASSUME NEW n \in 1..NumReports PROVE [src |-> JobReporter, no |-> n] \in Messages
  <2>1. n \in 1..NumWords
    BY <1>1
  <2> QED  BY <2>1, PublishersAssumption DEF Messages
<1>5. ASSUME NEW m \in Messages PROVE m.src \in Publishers /\ m.no \in 1..NumWords /\ m.no \in Nat
  BY <1>1 DEF Messages
<1> QED  BY <1>2, <1>3, <1>4, <1>5

\* Taking the oldest of a backlog.
LEMMA TakeFacts ==
  ASSUME NEW q \in Seq(Messages), q # <<>>
  PROVE  /\ Head(q) \in Messages /\ Tail(q) \in Seq(Messages) /\ Len(Tail(q)) = Len(q) - 1
         /\ Len(q) \in Nat /\ Range(q) = Range(Tail(q)) \cup {Head(q)}
         /\ Rising(q) => /\ Rising(Tail(q))
                         /\ \A m \in Range(Tail(q)) : m.src = Head(q).src => Head(q).no < m.no
<1>1. /\ Head(q) \in Messages /\ Tail(q) \in Seq(Messages) /\ Len(q) \in Nat \ {0}
      /\ Len(Tail(q)) = Len(q) - 1 /\ Head(q) = q[1]
      /\ \A i \in 1..Len(q) - 1 : Tail(q)[i] = q[i + 1]
  BY HeadTailProperties, LenProperties
<1>2. DOMAIN q = 1..Len(q) /\ DOMAIN Tail(q) = 1..Len(q) - 1
  BY <1>1, LenProperties
<1>3. Range(q) = Range(Tail(q)) \cup {Head(q)}
  <2>1. ASSUME NEW i \in DOMAIN q PROVE q[i] = Head(q) \/ \E j \in DOMAIN Tail(q) : q[i] = Tail(q)[j]
    <3>1. CASE i = 1
      BY <1>1, <3>1
    <3>2. CASE i # 1
      <4>1. i - 1 \in 1..Len(q) - 1 /\ (i - 1) + 1 = i
        BY <1>1, <1>2, <3>2
      <4> QED  BY <1>1, <1>2, <4>1
    <3> QED  BY <3>1, <3>2
  <2>2. \A j \in DOMAIN Tail(q) : j + 1 \in DOMAIN q /\ Tail(q)[j] = q[j + 1]
    BY <1>1, <1>2
  <2>3. 1 \in DOMAIN q
    BY <1>1, <1>2
  <2> QED  BY <1>1, <2>1, <2>2, <2>3 DEF Range
<1>4. ASSUME Rising(q) PROVE Rising(Tail(q))
  <2>1. SUFFICES ASSUME NEW i \in DOMAIN Tail(q), NEW j \in DOMAIN Tail(q), i < j,
                        Tail(q)[i].src = Tail(q)[j].src
                 PROVE  Tail(q)[i].no < Tail(q)[j].no
    BY DEF Rising
  <2>2. i + 1 \in DOMAIN q /\ j + 1 \in DOMAIN q /\ i + 1 < j + 1
    BY <1>1, <1>2, <2>1
  <2> QED  BY <1>1, <1>2, <1>4, <2>1, <2>2 DEF Rising
<1>5. ASSUME Rising(q), NEW m \in Range(Tail(q)), m.src = Head(q).src PROVE Head(q).no < m.no
  <2>1. PICK j \in DOMAIN Tail(q) : m = Tail(q)[j]
    BY DEF Range
  <2>2. j + 1 \in DOMAIN q /\ m = q[j + 1] /\ 1 \in DOMAIN q /\ 1 < j + 1
    BY <1>1, <1>2, <2>1
  <2> QED  BY <1>1, <1>5, <2>2 DEF Rising
<1> QED  BY <1>1, <1>3, <1>4, <1>5

\* Adding a message newer than its publisher's others.
LEMMA PutFacts ==
  ASSUME NEW q \in Seq(Messages), NEW m \in Messages
  PROVE  /\ Append(q, m) \in Seq(Messages) /\ Len(Append(q, m)) = Len(q) + 1 /\ Len(q) \in Nat
         /\ Range(Append(q, m)) = Range(q) \cup {m}
         /\ Rising(q) /\ (\A x \in Range(q) : x.src = m.src => x.no < m.no)
               => Rising(Append(q, m))
<1>1. /\ Append(q, m) \in Seq(Messages) /\ Len(Append(q, m)) = Len(q) + 1 /\ Len(q) \in Nat
      /\ \A i \in 1..Len(q) : Append(q, m)[i] = q[i]
      /\ Append(q, m)[Len(q) + 1] = m
  BY AppendProperties, LenProperties
<1>2. DOMAIN q = 1..Len(q) /\ DOMAIN Append(q, m) = 1..Len(q) + 1
  BY <1>1, LenProperties
<1>3. Range(Append(q, m)) = Range(q) \cup {m}
  <2>1. \A i \in DOMAIN Append(q, m) : i \in DOMAIN q \/ i = Len(q) + 1
    BY <1>1, <1>2
  <2>2. \A i \in DOMAIN q : i \in DOMAIN Append(q, m)
    BY <1>1, <1>2
  <2>3. Len(q) + 1 \in DOMAIN Append(q, m)
    BY <1>1, <1>2
  <2> QED  BY <1>1, <1>2, <2>1, <2>2, <2>3 DEF Range
<1>4. ASSUME Rising(q), \A x \in Range(q) : x.src = m.src => x.no < m.no
      PROVE  Rising(Append(q, m))
  <2>1. SUFFICES ASSUME NEW i \in DOMAIN Append(q, m), NEW j \in DOMAIN Append(q, m), i < j,
                        Append(q, m)[i].src = Append(q, m)[j].src
                 PROVE  Append(q, m)[i].no < Append(q, m)[j].no
    BY DEF Rising
  <2>2. i \in DOMAIN q /\ Append(q, m)[i] = q[i] /\ q[i] \in Range(q)
    BY <1>1, <1>2, <2>1 DEF Range
  <2>3. CASE j = Len(q) + 1
    BY <1>1, <1>4, <2>1, <2>2, <2>3
  <2>4. CASE j # Len(q) + 1
    <3>1. j \in DOMAIN q /\ Append(q, m)[j] = q[j]
      BY <1>1, <1>2, <2>4
    <3> QED  BY <1>4, <2>1, <2>2, <3>1 DEF Rising
  <2> QED  BY <2>3, <2>4
<1> QED  BY <1>1, <1>3, <1>4

-----------------------------------------------------------------------------
(* RouterInv.                                                              *)

\* Nobody has called yet.
LEMMA RouterInit == Init => RouterInv
<1> SUFFICES ASSUME Init PROVE RouterInv
  OBVIOUS
<1>0. NumWords \in Nat /\ MaxLosses \in Nat /\ MaxRefusals \in Nat /\ NumReports \in Nat
      /\ Capacity \in Nat
  BY BoundsAssumption, WordsAssumption, CapacityAssumption
<1>1. tries \in [lost : 0..MaxLosses, refused : 0..MaxRefusals]
  BY <1>0 DEF Init, MqttInit
<1>2. outbox \in Seq(Messages) /\ Len(outbox) <= Capacity
  BY <1>0 DEF Init, MqttInit
<1>3. newest \in [Publishers -> 0..NumWords] /\ arg \in [Publishers -> Messages \cup {NoMessage}]
      /\ at \in [Publishers -> {"idle", "direct", "put", "full", "again", "returned", "raised"}]
  BY <1>0 DEF Init, MqttInit
<1>4. MqttTypeOK
  BY <1>1, <1>2, <1>3 DEF MqttTypeOK, Init, MqttInit
<1>5. TypeOK
  BY <1>0, <1>4 DEF TypeOK, Init
<1>6. Calls
  BY PublishersAssumption DEF Calls, OwnMessage, CallOf, Init, MqttInit, NoMessage, Talking
<1> QED  BY <1>5, <1>6 DEF RouterInv, Started, Init, MqttInit

\* What publish does to its thread: it goes on with the same message until
\* it has returned or raised.
LEMMA PublishStep ==
  ASSUME RouterInv, NEW p \in Publishers, PublishNext(p)
  PROVE  /\ at[p] \in Busy /\ arg[p] \in Messages /\ arg[p].src = p
         /\ UNCHANGED <<conn, drain, held, arg, topics, crossed>>
         /\ \E x \in {"full", "again", "returned", "raised"} : at' = [at EXCEPT ![p] = x]
<1>1. at[p] \in Busy
  BY DEF PublishNext, Direct, Put, MakeRoom, PutAgain, Busy
<1>2. arg[p] \in Messages /\ arg[p].src = p
  BY <1>1 DEF RouterInv, TypeOK, MqttTypeOK, Calls, OwnMessage, Busy
<1>3. UNCHANGED <<conn, drain, held, arg, topics, crossed>>
  BY DEF PublishNext, Direct, Put, MakeRoom, PutAgain, Hand, tally, box
<1>4. \E x \in {"full", "again", "returned", "raised"} : at' = [at EXCEPT ![p] = x]
  BY DEF PublishNext, Direct, Put, MakeRoom, PutAgain
<1> QED  BY <1>1, <1>2, <1>3, <1>4

\* paho accepts a message.
LEMMA HandType ==
  ASSUME RouterInv, NEW m \in Messages, Hand(m)
  PROVE  /\ given' \subseteq Messages /\ lost' \subseteq Messages
         /\ newest' \in [Publishers -> 0..NumWords]
         /\ swapped' \subseteq Publishers /\ crossed' \subseteq Publishers
<1>1. m.src \in Publishers /\ m.no \in 0..NumWords
  BY MessageFacts
<1> QED  BY <1>1 DEF RouterInv, TypeOK, MqttTypeOK, Hand

\* The outbox and the messages of its publishers, after a step of publish.
LEMMA PublishType ==
  ASSUME RouterInv, NEW p \in Publishers, PublishNext(p)
  PROVE  MqttTypeOK'
<1>1. /\ arg[p] \in Messages /\ UNCHANGED <<conn, drain, held, arg, topics, crossed>>
      /\ \E x \in {"full", "again", "returned", "raised"} : at' = [at EXCEPT ![p] = x]
  BY PublishStep
<1>2. at' \in [Publishers -> {"idle", "direct", "put", "full", "again", "returned", "raised"}]
  BY <1>1 DEF RouterInv, TypeOK, MqttTypeOK
<1>3. /\ outbox \in Seq(Messages) /\ Len(outbox) <= Capacity /\ Capacity \in Nat
      /\ given \subseteq Messages /\ lost \subseteq Messages
      /\ newest \in [Publishers -> 0..NumWords]
      /\ swapped \subseteq Publishers /\ crossed \subseteq Publishers
  BY CapacityAssumption DEF RouterInv, TypeOK, MqttTypeOK
<1>4. /\ outbox' \in Seq(Messages) /\ Len(outbox') <= Capacity
      /\ given' \subseteq Messages /\ lost' \subseteq Messages
      /\ newest' \in [Publishers -> 0..NumWords]
      /\ swapped' \subseteq Publishers /\ crossed' \subseteq Publishers
  <2>1. CASE Direct(p)
    BY <1>1, <1>3, <2>1, HandType DEF Direct, box
  <2>2. /\ Append(outbox, arg[p]) \in Seq(Messages)
        /\ Len(outbox) < Capacity => Len(Append(outbox, arg[p])) <= Capacity
        /\ outbox # <<>> => /\ Tail(outbox) \in Seq(Messages) /\ Head(outbox) \in Messages
                           /\ Len(Tail(outbox)) <= Capacity
    <3>1. outbox # <<>> => /\ Tail(outbox) \in Seq(Messages) /\ Head(outbox) \in Messages
                           /\ Len(Tail(outbox)) = Len(outbox) - 1 /\ Len(outbox) \in Nat
      BY <1>3, TakeFacts
    <3>2. /\ Append(outbox, arg[p]) \in Seq(Messages)
          /\ Len(Append(outbox, arg[p])) = Len(outbox) + 1 /\ Len(outbox) \in Nat
      BY <1>1, <1>3, PutFacts
    <3> QED  BY <1>3, <3>1, <3>2
  <2>3. CASE Put(p)
    BY <1>1, <1>3, <2>2, <2>3 DEF Put, tally
  <2>4. CASE MakeRoom(p)
    BY <1>1, <1>3, <2>2, <2>4 DEF MakeRoom
  <2>5. CASE PutAgain(p)
    BY <1>1, <1>3, <2>2, <2>5 DEF PutAgain
  <2> QED  BY <2>1, <2>3, <2>4, <2>5 DEF PublishNext
<1> QED  BY <1>1, <1>2, <1>4 DEF RouterInv, TypeOK, MqttTypeOK, conn, topics

\* The drain thread holds a message between the two calls, and only then.
LEMMA DrainType ==
  ASSUME RouterInv, DrainNext
  PROVE  MqttTypeOK'
<1>1. /\ outbox \in Seq(Messages) /\ Len(outbox) <= Capacity /\ Capacity \in Nat
      /\ held \in Messages \cup {NoMessage} /\ (held = NoMessage <=> drain # "holding")
  BY CapacityAssumption DEF RouterInv, TypeOK, MqttTypeOK
<1>2. CASE DrainWake
  BY <1>1, <1>2 DEF DrainWake, conn, topics, tally, RouterInv, TypeOK, MqttTypeOK
<1>3. CASE DrainTake /\ outbox = <<>>
  BY <1>1, <1>3 DEF DrainTake, conn, topics, tally, RouterInv, TypeOK, MqttTypeOK
<1>4. CASE DrainTake /\ outbox # <<>>
  <2>1. Head(outbox) \in Messages /\ Tail(outbox) \in Seq(Messages) /\ Len(Tail(outbox)) <= Capacity
    BY <1>1, <1>4, TakeFacts
  <2>2. /\ outbox' \in Seq(Messages) /\ Len(outbox') <= Capacity /\ held' \in Messages
        /\ held' # NoMessage /\ drain' = "holding" /\ UNCHANGED <<conn, at, arg, topics, tally>>
    BY <1>4, <2>1, MessageFacts DEF DrainTake
  <2> QED  BY <2>2 DEF conn, topics, tally, RouterInv, TypeOK, MqttTypeOK
<1>5. CASE DrainHand
  <2>1. held \in Messages
    BY <1>1, <1>5 DEF DrainHand
  <2>2. /\ given' \subseteq Messages /\ lost' \subseteq Messages
        /\ newest' \in [Publishers -> 0..NumWords]
        /\ swapped' \subseteq Publishers /\ crossed' \subseteq Publishers
    BY <1>5, <2>1, HandType DEF DrainHand
  <2> QED  BY <1>5, <2>2 DEF DrainHand, conn, topics, RouterInv, TypeOK, MqttTypeOK
<1> QED  BY <1>2, <1>3, <1>4, <1>5 DEF DrainNext

\* The counts of lost and refused connections keep to their bounds.
LEMMA TriesFacts ==
  ASSUME NEW t \in [lost : 0..MaxLosses, refused : 0..MaxRefusals]
  PROVE  /\ t.refused < MaxRefusals
               => [t EXCEPT !.refused = @ + 1] \in [lost : 0..MaxLosses, refused : 0..MaxRefusals]
         /\ t.lost < MaxLosses
               => [t EXCEPT !.lost = @ + 1] \in [lost : 0..MaxLosses, refused : 0..MaxRefusals]
         /\ [t EXCEPT !.refused = 0] \in [lost : 0..MaxLosses, refused : 0..MaxRefusals]
<1>1. t.lost \in 0..MaxLosses /\ t.refused \in 0..MaxRefusals
      /\ MaxLosses \in Nat /\ MaxRefusals \in Nat
  BY BoundsAssumption
<1>2. t = [lost |-> t.lost, refused |-> t.refused]
  OBVIOUS
<1>3. t.refused < MaxRefusals => t.refused + 1 \in 0..MaxRefusals
  BY <1>1
<1>4. t.lost < MaxLosses => t.lost + 1 \in 0..MaxLosses
  BY <1>1
<1> QED  BY <1>1, <1>2, <1>3, <1>4

\* The connection comes and goes; messages and their publishers stay.
LEMMA ConnectionStep ==
  ASSUME RouterInv, DialNext \/ PahoNext \/ Stop
  PROVE  /\ MqttTypeOK' /\ Started' /\ UNCHANGED <<outbox, held, at, arg, given, lost, newest, swapped>>
         /\ \/ UNCHANGED crossed /\ (connected' => connected)
            \/ crossed' = crossed \cup {p \in Publishers : at[p] # "idle"}
<1>0. tries \in [lost : 0..MaxLosses, refused : 0..MaxRefusals]
  BY DEF RouterInv, TypeOK, MqttTypeOK
<1>1. tries' \in [lost : 0..MaxLosses, refused : 0..MaxRefusals]
  <2>1. \/ tries' = tries
        \/ tries.refused < MaxRefusals /\ tries' = [tries EXCEPT !.refused = @ + 1]
        \/ tries.lost < MaxLosses /\ tries' = [tries EXCEPT !.lost = @ + 1]
        \/ tries' = [tries EXCEPT !.refused = 0]
    BY DEF DialNext, PahoNext, Stop, Start, Dial, Redial, EndServing, Subscribe,
           OnConnect, OnConnectRefused, LoseLink, OnDisconnect, conn
  <2> QED  BY ONLY <1>0, <2>1, TriesFacts
<1>2. UNCHANGED <<outbox, held, at, arg, given, lost, newest, swapped>>
  BY DEF DialNext, PahoNext, Stop, Start, Dial, Redial, EndServing, Subscribe,
         OnConnect, OnConnectRefused, LoseLink, OnDisconnect, box, tally
<1>3. \/ UNCHANGED crossed /\ (connected' => connected)
      \/ crossed' = crossed \cup {p \in Publishers : at[p] # "idle"}
  <2>1. CASE OnConnect
    BY <2>1 DEF OnConnect, InMidst
  <2>2. CASE DialNext \/ Stop
    BY <2>2 DEF DialNext, Stop, Start, Dial, Redial, EndServing, Subscribe, tally, conn
  <2>3. CASE OnConnectRefused \/ LoseLink \/ OnDisconnect
    BY <2>3 DEF OnConnectRefused, LoseLink, OnDisconnect, tally
  <2> QED  BY <2>1, <2>2, <2>3 DEF PahoNext
<1>4. /\ drain' = drain \/ (dial = "off" /\ drain' = "waiting")
      /\ dial' \in {"off", "dialling", "backoff", "serving", "over"}
      /\ dial' = "off" => dial = "off" /\ drain' = drain
      /\ connected' \in BOOLEAN /\ stopping' \in BOOLEAN /\ link' \in BOOLEAN
      /\ subscribed' \in BOOLEAN /\ listening' \in BOOLEAN
  <2> USE DEF conn, box, topics, RouterInv, TypeOK, MqttTypeOK
  <2>1. CASE Start \/ Redial \/ EndServing \/ Subscribe \/ Stop
    BY <2>1 DEF Start, Redial, EndServing, Subscribe, Stop
  <2>2. CASE Dial \/ OnConnect
    BY <2>2 DEF Dial, OnConnect
  <2>3. CASE OnConnectRefused \/ LoseLink \/ OnDisconnect
    BY <2>3 DEF OnConnectRefused, LoseLink, OnDisconnect
  <2> QED  BY <2>1, <2>2, <2>3 DEF DialNext, PahoNext
<1>5. crossed' \subseteq Publishers
  BY <1>3 DEF RouterInv, TypeOK, MqttTypeOK
<1> QED  BY <1>1, <1>2, <1>3, <1>4, <1>5 DEF RouterInv, TypeOK, MqttTypeOK, Started

-----------------------------------------------------------------------------
(* The callers of publish.                                                 *)

\* A publisher speaks: its next message is newer than its last.
Speaks(p, m) ==
    /\ m \in Messages /\ m.src = p /\ arg[p].no < m.no
    /\ arg' = [arg EXCEPT ![p] = m]
    /\ at' = [at EXCEPT ![p] = IF connected THEN "direct" ELSE "put"]

Rests(p) == at' = [at EXCEPT ![p] = "idle"] /\ UNCHANGED arg

\* What the thread of a command does between two calls of publish.
LEMMA CommandStep ==
  ASSUME RouterInv, NEW c \in Commands,
         CommandThread(c) \/ \E raw \in Payloads : HandleCommand(c, raw)
  PROVE  /\ UNCHANGED <<conn, box, topics, tally, reports>>
         /\ at[c] \notin Busy /\ (at[c] = "idle" => arg[c] = NoMessage)
         /\ \E s \in {"refused", "QUEUED", "EXECUTING", "sending", "SUCCESS", "ERROR",
                      "EXCEPTION", "over"} :
               /\ stage' = [stage EXCEPT ![c] = s]
               /\ s \in Talking => Speaks(c, Said(c, s))
               /\ s = "sending" => UNCHANGED <<at, arg>> /\ stage[c] = "EXECUTING" /\ at[c] = "returned"
               /\ s = "refused" => UNCHANGED <<at, arg>> /\ stage[c] = "unborn"
               /\ s = "over" => Rests(c)
               /\ s = "EXCEPTION" => stage[c] \in {"SUCCESS", "ERROR"} /\ at[c] = "raised"
               /\ s \in {"SUCCESS", "ERROR"}
                     => /\ stage[c] = "sending"
                        /\ result' = [result EXCEPT ![c] = IF s = "SUCCESS" THEN "OK" ELSE "notOK"]
               /\ s \notin {"SUCCESS", "ERROR"} => UNCHANGED result
<1>1. CallOf(c) /\ c \in Publishers /\ OwnMessage(c)
      /\ at[c] \in {"idle", "direct", "put", "full", "again", "returned", "raised"}
  BY PublishersAssumption DEF RouterInv, Calls, TypeOK, MqttTypeOK
<1>2. NoMessage.no = 0
  BY DEF NoMessage
<1>3. \A w \in Talking : Said(c, w) \in Messages /\ Said(c, w).src = c /\ Said(c, w).no = Number[w]
  BY MessageFacts DEF Said
<1>4. ASSUME NEW raw \in Payloads, HandleCommand(c, raw)
      PROVE  /\ UNCHANGED <<conn, box, topics, tally, result, reports>> /\ stage[c] = "unborn"
             /\ \/ stage' = [stage EXCEPT ![c] = "refused"] /\ UNCHANGED <<at, arg>>
                \/ stage' = [stage EXCEPT ![c] = "QUEUED"] /\ Speaks(c, Said(c, "QUEUED"))
  <2>1. arg[c].no < Said(c, "QUEUED").no /\ stage[c] = "unborn"
    BY <1>1, <1>2, <1>3, <1>4, NumberFacts DEF HandleCommand, CallOf, Talking
  <2> QED  BY <1>3, <1>4, <2>1 DEF HandleCommand, Answer, Publish, Speaks, Said, Talking
<1>5. ASSUME Announce(c)
      PROVE  /\ UNCHANGED <<conn, box, topics, tally, result, reports>> /\ at[c] \in {"returned", "raised"}
             /\ \/ stage' = [stage EXCEPT ![c] = "over"] /\ Rests(c)
                \/ /\ stage' = [stage EXCEPT ![c] = "EXECUTING"] /\ Speaks(c, Said(c, "EXECUTING"))
                \/ /\ stage' = [stage EXCEPT ![c] = "sending"] /\ UNCHANGED <<at, arg>>
                   /\ stage[c] = "EXECUTING" /\ at[c] = "returned"
  <2>1. stage[c] = "QUEUED" => arg[c].no < Said(c, "EXECUTING").no
    BY <1>1, <1>3, NumberFacts DEF CallOf, Talking
  <2> QED  BY <1>3, <1>5, <2>1 DEF Announce, Answer, Publish, Speaks, Rests, Said, Talking
<1>6. ASSUME Send(c)
      PROVE  /\ UNCHANGED <<conn, box, topics, tally, reports>> /\ at[c] = "returned" /\ stage[c] = "sending"
             /\ \E s \in {"SUCCESS", "ERROR"} :
                   /\ stage' = [stage EXCEPT ![c] = s] /\ Speaks(c, Said(c, s))
                   /\ result' = [result EXCEPT ![c] = IF s = "SUCCESS" THEN "OK" ELSE "notOK"]
  <2>1. stage[c] = "sending" /\ at[c] = "returned" /\ arg[c] = Said(c, "EXECUTING")
    BY <1>1, <1>6 DEF Send, CallOf
  <2>2. \A s \in {"SUCCESS", "ERROR"} : s \in Talking /\ arg[c].no < Said(c, s).no
    BY <1>3, <2>1, NumberFacts DEF Talking
  <2>3. PICK t \in {"OK", "notOK"} :
             /\ result' = [result EXCEPT ![c] = t]
             /\ stage' = [stage EXCEPT ![c] = IF t = "OK" THEN "SUCCESS" ELSE "ERROR"]
             /\ Answer(c, IF t = "OK" THEN "SUCCESS" ELSE "ERROR")
    BY <1>6 DEF Send
  <2>4. UNCHANGED <<conn, box, topics, tally, reports>>
    BY <1>6 DEF Send
  <2>5. CASE t = "OK"
    <3>1. Speaks(c, Said(c, "SUCCESS"))
      BY <1>3, <2>2, <2>3, <2>5 DEF Answer, Publish, Speaks, Said
    <3> QED  BY <2>1, <2>3, <2>4, <2>5, <3>1
  <2>6. CASE t = "notOK"
    <3>1. Speaks(c, Said(c, "ERROR"))
      BY <1>3, <2>2, <2>3, <2>6 DEF Answer, Publish, Speaks, Said
    <3> QED  BY <2>1, <2>3, <2>4, <2>6, <3>1
  <2> QED  BY <2>5, <2>6
<1>7. ASSUME Finish(c)
      PROVE  /\ UNCHANGED <<conn, box, topics, tally, result, reports>> /\ at[c] \in {"returned", "raised"}
             /\ \/ stage' = [stage EXCEPT ![c] = "over"] /\ Rests(c)
                \/ /\ stage' = [stage EXCEPT ![c] = "EXCEPTION"] /\ Speaks(c, Said(c, "EXCEPTION"))
                   /\ stage[c] \in {"SUCCESS", "ERROR"} /\ at[c] = "raised"
  <2>1. stage[c] \in {"SUCCESS", "ERROR"} => arg[c].no < Said(c, "EXCEPTION").no
    BY <1>1, <1>3, NumberFacts DEF CallOf, Talking
  <2> QED  BY <1>3, <1>7, <2>1 DEF Finish, Answer, Publish, Speaks, Rests, Said, Talking
<1> HIDE DEF Speaks, Rests, Said
<1>8. CASE \E raw \in Payloads : HandleCommand(c, raw)
  BY <1>1, <1>4, <1>8 DEF CallOf, Busy, Talking
<1>9. CASE Announce(c)
  BY <1>5, <1>9 DEF Busy, Talking
<1>10. CASE Send(c)
  BY <1>6, <1>10 DEF Busy, Talking
<1>11. CASE Finish(c)
  BY <1>7, <1>11 DEF Busy, Talking
<1> QED  BY <1>8, <1>9, <1>10, <1>11 DEF CommandThread

\* The job layer between two reports.
LEMMA ReportStep ==
  ASSUME RouterInv, ReportJob \/ EndReports
  PROVE  /\ UNCHANGED <<conn, box, topics, tally, stage, result>>
         /\ at[JobReporter] \notin Busy
         /\ \/ /\ reports' = reports + 1 /\ reports' \in 1..NumReports
               /\ Speaks(JobReporter, [src |-> JobReporter, no |-> reports'])
               /\ at[JobReporter] = "idle" => arg[JobReporter].no = 0
            \/ Rests(JobReporter) /\ reports' = reports /\ reports = NumReports
<1>1. /\ arg[JobReporter].no = reports /\ reports \in 0..NumReports /\ NumReports \in Nat
      /\ at[JobReporter] = "idle" => reports \in {0, NumReports}
  BY WordsAssumption, BoundsAssumption DEF RouterInv, Calls, TypeOK
<1>2. CASE ReportJob
  <2>1. reports' = reports + 1 /\ reports' \in 1..NumReports
    BY <1>1, <1>2 DEF ReportJob
  <2>2. Speaks(JobReporter, [src |-> JobReporter, no |-> reports'])
    BY <1>1, <1>2, <2>1, MessageFacts DEF ReportJob, Publish, Speaks
  <2> QED  BY <1>1, <1>2, <2>1, <2>2 DEF ReportJob, Busy
<1>3. CASE EndReports
  BY <1>3 DEF EndReports, Busy, Rests, routerVars
<1> QED  BY <1>2, <1>3

\* A publisher that speaks or rests keeps to the domains and to its messages.
LEMMA SpeakerType ==
  ASSUME RouterInv, NEW p \in Publishers, UNCHANGED <<conn, box, topics, tally>>,
         (\E m \in Messages : Speaks(p, m)) \/ UNCHANGED <<at, arg>> \/ Rests(p)
  PROVE  /\ MqttTypeOK' /\ Started' /\ \A q \in Publishers : OwnMessage(q)'
         /\ \A q \in Publishers \ {p} : at'[q] = at[q] /\ arg'[q] = arg[q]
<1>1. /\ at \in [Publishers -> {"idle", "direct", "put", "full", "again", "returned", "raised"}]
      /\ arg \in [Publishers -> Messages \cup {NoMessage}]
      /\ \A q \in Publishers : OwnMessage(q)
  BY DEF RouterInv, TypeOK, MqttTypeOK, Calls
<1>2. /\ at' \in [Publishers -> {"idle", "direct", "put", "full", "again", "returned", "raised"}]
      /\ arg' \in [Publishers -> Messages \cup {NoMessage}]
      /\ \A q \in Publishers \ {p} : at'[q] = at[q] /\ arg'[q] = arg[q]
      /\ OwnMessage(p)'
  <2>1. CASE \E m \in Messages : Speaks(p, m)
    BY <1>1, <2>1, MessageFacts DEF Speaks, OwnMessage
  <2>2. CASE UNCHANGED <<at, arg>> \/ Rests(p)
    BY <1>1, <2>2 DEF Rests, OwnMessage
  <2> QED  BY <2>1, <2>2
<1>3. \A q \in Publishers : OwnMessage(q)'
  BY <1>1, <1>2 DEF OwnMessage
<1> QED  BY <1>2, <1>3 DEF RouterInv, TypeOK, MqttTypeOK, Started, conn, box, topics, tally

\* RouterInv is kept by the thread of a command and by the job layer.
LEMMA RouterTalk ==
  ASSUME RouterInv,
         \/ \E c \in Commands : CommandThread(c) \/ \E raw \in Payloads : HandleCommand(c, raw)
         \/ ReportJob \/ EndReports
  PROVE  RouterInv'
<1>0. JobReporter \in Publishers /\ JobReporter \notin Commands /\ Commands \subseteq Publishers
  BY PublishersAssumption, ReporterAssumption
<1>1. ASSUME NEW c \in Commands,
             CommandThread(c) \/ \E raw \in Payloads : HandleCommand(c, raw)
      PROVE  RouterInv'
  <2>1. /\ UNCHANGED <<conn, box, topics, tally, reports>>
        /\ \E s \in {"refused", "QUEUED", "EXECUTING", "sending", "SUCCESS", "ERROR",
                     "EXCEPTION", "over"} :
              /\ stage' = [stage EXCEPT ![c] = s]
              /\ s \in Talking => Speaks(c, Said(c, s))
              /\ s = "sending" => UNCHANGED <<at, arg>> /\ stage[c] = "EXECUTING" /\ at[c] = "returned"
              /\ s = "refused" => UNCHANGED <<at, arg>> /\ stage[c] = "unborn"
              /\ s = "over" => Rests(c)
              /\ s \in {"SUCCESS", "ERROR"}
                    => result' = [result EXCEPT ![c] = IF s = "SUCCESS" THEN "OK" ELSE "notOK"]
              /\ s \notin {"SUCCESS", "ERROR"} => UNCHANGED result
    BY <1>1, CommandStep
  <2>2. PICK s \in {"refused", "QUEUED", "EXECUTING", "sending", "SUCCESS", "ERROR",
                    "EXCEPTION", "over"} :
              /\ stage' = [stage EXCEPT ![c] = s]
              /\ s \in Talking => Speaks(c, Said(c, s))
              /\ s = "sending" => UNCHANGED <<at, arg>> /\ stage[c] = "EXECUTING" /\ at[c] = "returned"
              /\ s = "refused" => UNCHANGED <<at, arg>> /\ stage[c] = "unborn"
              /\ s = "over" => Rests(c)
              /\ s \in {"SUCCESS", "ERROR"}
                    => result' = [result EXCEPT ![c] = IF s = "SUCCESS" THEN "OK" ELSE "notOK"]
              /\ s \notin {"SUCCESS", "ERROR"} => UNCHANGED result
    BY <2>1
  <2>3. (\E m \in Messages : Speaks(c, m)) \/ UNCHANGED <<at, arg>> \/ Rests(c)
    <3>1. s \in Talking => Said(c, s) \in Messages
      BY MessageFacts
    <3> QED  BY <2>2, <3>1 DEF Talking
  <2>4. /\ MqttTypeOK' /\ Started' /\ \A q \in Publishers : OwnMessage(q)'
        /\ \A q \in Publishers \ {c} : at'[q] = at[q] /\ arg'[q] = arg[q]
    BY <1>0, <2>1, <2>3, SpeakerType
  <2>5. /\ stage \in [Commands -> {"unborn", "refused", "QUEUED", "EXECUTING", "sending",
                                   "SUCCESS", "ERROR", "EXCEPTION", "over"}]
        /\ at \in [Publishers -> {"idle", "direct", "put", "full", "again", "returned", "raised"}]
        /\ arg \in [Publishers -> Messages \cup {NoMessage}]
        /\ \A d \in Commands : CallOf(d)
    BY DEF RouterInv, TypeOK, MqttTypeOK, Calls
  <2>6. TypeOK'
    BY <2>1, <2>2, <2>4, <2>5 DEF RouterInv, TypeOK
  <2>7. CallOf(c)'
    <3>1. stage'[c] = s /\ c \in Publishers
      BY <1>0, <2>2, <2>5
    <3>2. CASE s \in Talking
      <4>1. Speaks(c, Said(c, s)) /\ s \notin {"unborn", "refused", "sending", "over"}
        BY <2>2, <3>2 DEF Talking
      <4>2. at'[c] # "idle" /\ arg'[c] = Said(c, s)
        BY <2>5, <3>1, <4>1 DEF Speaks
      <4> QED  BY <3>1, <4>1, <4>2 DEF CallOf, Said
    <3>3. CASE s = "over"
      <4>1. at'[c] = "idle"
        BY <2>2, <2>5, <3>1, <3>3 DEF Rests
      <4> QED  BY <3>1, <3>3, <4>1 DEF CallOf, Talking
    <3>4. CASE s = "sending"
      <4>1. at'[c] = "returned" /\ arg'[c] = Said(c, "EXECUTING")
        BY <2>2, <2>5, <3>4 DEF CallOf, Talking
      <4> QED  BY <3>1, <3>4, <4>1 DEF CallOf, Talking, Said
    <3>5. CASE s = "refused"
      <4>1. at'[c] = "idle" /\ arg'[c] = NoMessage
        BY <2>2, <2>5, <3>5 DEF CallOf
      <4> QED  BY <3>1, <3>5, <4>1 DEF CallOf, Talking
    <3> QED  BY <2>2, <3>2, <3>3, <3>4, <3>5 DEF Talking
  <2>8. \A d \in Commands \ {c} : CallOf(d)'
    BY <1>0, <2>2, <2>4, <2>5 DEF CallOf, Said
  <2>9. arg'[JobReporter] = arg[JobReporter] /\ at'[JobReporter] = at[JobReporter] /\ reports' = reports
    BY <1>0, <2>1, <2>4
  <2> QED  BY <2>4, <2>6, <2>7, <2>8, <2>9 DEF RouterInv, Calls
<1>2. ASSUME ReportJob \/ EndReports PROVE RouterInv'
  <2>1. /\ UNCHANGED <<conn, box, topics, tally, stage, result>>
        /\ \/ /\ reports' = reports + 1 /\ reports' \in 1..NumReports
              /\ Speaks(JobReporter, [src |-> JobReporter, no |-> reports'])
           \/ Rests(JobReporter) /\ reports' = reports /\ reports = NumReports
    BY <1>2, ReportStep
  <2>2. (\E m \in Messages : Speaks(JobReporter, m)) \/ UNCHANGED <<at, arg>> \/ Rests(JobReporter)
    BY <2>1, MessageFacts
  <2>3. /\ MqttTypeOK' /\ Started' /\ \A q \in Publishers : OwnMessage(q)'
        /\ \A q \in Publishers \ {JobReporter} : at'[q] = at[q] /\ arg'[q] = arg[q]
    BY <1>0, <2>1, <2>2, SpeakerType
  <2>4. /\ at \in [Publishers -> {"idle", "direct", "put", "full", "again", "returned", "raised"}]
        /\ arg \in [Publishers -> Messages \cup {NoMessage}] /\ NumReports \in Nat
        /\ \A d \in Commands : CallOf(d)
        /\ arg[JobReporter].no = reports
    BY WordsAssumption, BoundsAssumption DEF RouterInv, TypeOK, MqttTypeOK, Calls
  <2>5. reports' \in 0..NumReports
    BY <2>1, <2>4 DEF RouterInv, TypeOK
  <2>6. TypeOK'
    BY <2>1, <2>3, <2>5 DEF RouterInv, TypeOK
  <2>7. \A d \in Commands : CallOf(d)'
    BY <1>0, <2>1, <2>3, <2>4 DEF CallOf, Said
  <2>8. arg'[JobReporter].no = reports' /\ (at'[JobReporter] = "idle" => reports' \in {0, NumReports})
    BY <1>0, <2>1, <2>4 DEF Speaks, Rests
  <2> QED  BY <2>3, <2>6, <2>7, <2>8 DEF RouterInv, Calls
<1> QED  BY <1>1, <1>2

\* RouterInv is kept by the client.
LEMMA RouterMqtt ==
  ASSUME RouterInv, MqttNext, UNCHANGED routerVars
  PROVE  RouterInv'
<1>0. JobReporter \in Publishers /\ Commands \subseteq Publishers
      /\ at \in [Publishers -> {"idle", "direct", "put", "full", "again", "returned", "raised"}]
  BY PublishersAssumption DEF RouterInv, TypeOK, MqttTypeOK
<1>1. UNCHANGED <<stage, result, reports>>
  BY DEF routerVars
<1>2. MqttTypeOK' => TypeOK'
  BY <1>1 DEF RouterInv, TypeOK
<1>3. UNCHANGED <<at, arg>> => Calls'
  BY <1>1 DEF RouterInv, Calls, CallOf, OwnMessage, Said
<1>4. ASSUME NEW p \in Publishers, PublishNext(p) PROVE RouterInv'
  <2>1. /\ at[p] \in Busy /\ UNCHANGED <<conn, drain, held, arg, topics, crossed>>
        /\ \E x \in {"full", "again", "returned", "raised"} : at' = [at EXCEPT ![p] = x]
    BY <1>4, PublishStep
  <2>2. /\ \A q \in Publishers : at'[q] = "idle" <=> at[q] = "idle"
        /\ \A q \in Publishers : at[q] = "returned" => at'[q] = "returned"
    BY <1>0, <2>1 DEF Busy
  <2>3. (\A q \in Publishers : OwnMessage(q)') /\ (\A c \in Commands : CallOf(c)')
    BY <1>0, <1>1, <2>1, <2>2 DEF RouterInv, Calls, CallOf, OwnMessage, Said
  <2>4. Calls'
    BY <1>0, <1>1, <2>1, <2>2, <2>3 DEF RouterInv, Calls
  <2>5. Started'
    BY <2>1 DEF RouterInv, Started, conn
  <2> QED  BY <1>2, <1>4, <2>4, <2>5, PublishType DEF RouterInv
<1>5. CASE DrainNext
  <2>1. UNCHANGED <<at, arg>> /\ UNCHANGED conn /\ drain # "off"
    BY <1>5 DEF DrainNext, DrainWake, DrainTake, DrainHand
  <2> QED  BY <1>2, <1>3, <1>5, <2>1, DrainType DEF RouterInv, Started, conn
<1>6. CASE DialNext \/ PahoNext \/ Stop
  <2>1. MqttTypeOK' /\ Started' /\ UNCHANGED <<at, arg>>
    BY <1>6, ConnectionStep
  <2> QED  BY <1>2, <1>3, <2>1 DEF RouterInv
<1> QED  BY <1>4, <1>5, <1>6 DEF MqttNext

\* A step is one of these.
LEMMA RouterNext ==
  ASSUME RouterInv, [Next]_vars
  PROVE  RouterInv'
<1>1. CASE UNCHANGED vars
  BY <1>1 DEF vars, mqttVars, routerVars, conn, box, topics, tally, RouterInv, TypeOK,
              MqttTypeOK, Calls, CallOf, OwnMessage, Said, Started
<1>2. CASE Next
  BY <1>2, RouterTalk, RouterMqtt DEF Next
<1> QED  BY <1>1, <1>2

\* A thread of the client or of the router is never at a message it does not
\* have, the drain thread holds a message exactly between its two calls, and
\* the outbox keeps to its size.
THEOREM RouterTheorem == Spec => []RouterInv
<1>1. RouterInv /\ [Next]_vars => RouterInv'
  BY RouterNext
<1> QED  BY <1>1, RouterInit, PTL DEF Spec

\* Every variable keeps to its domain.
THEOREM TypeTheorem == Spec => []TypeOK
<1>1. RouterInv => TypeOK
  BY DEF RouterInv
<1> QED  BY <1>1, RouterTheorem, PTL

-----------------------------------------------------------------------------
(* UplinkInv.                                                              *)

\* Messages are where they are placed.
LEMMA PlacedFacts ==
  ASSUME RouterInv
  PROVE  /\ outbox \in Seq(Messages) /\ Range(outbox) \subseteq Messages
         /\ given \subseteq Messages /\ lost \subseteq Messages
         /\ held \in Messages \cup {NoMessage} /\ NoMessage \notin Messages
         /\ Placed = given \cup lost \cup Range(outbox) \cup ({held} \ {NoMessage})
         /\ Placed \subseteq Messages
<1>1. outbox \in Seq(Messages) /\ given \subseteq Messages /\ lost \subseteq Messages
      /\ held \in Messages \cup {NoMessage}
  BY DEF RouterInv, TypeOK, MqttTypeOK
<1>2. \A i \in DOMAIN outbox : outbox[i] \in Messages
  BY <1>1
<1>3. Range(outbox) \subseteq Messages
  BY <1>2 DEF Range
<1> QED  BY <1>1, <1>3, MessageFacts DEF Placed, Waiting

\* Two messages of one publisher differ in their number.
LEMMA SameMessage ==
  ASSUME NEW x \in Messages, NEW y \in Messages, x.src = y.src, x.no = y.no
  PROVE  x = y
  BY DEF Messages

\* What a publisher is busy with is newer than everything it has placed.
LEMMA BusyNewest ==
  ASSUME UplinkInv, NEW p \in Publishers, at[p] \in Busy
  PROVE  /\ arg[p] \in Messages /\ arg[p].src = p /\ arg[p] \notin Placed
         /\ \A x \in Placed : x.src = p => x.no < arg[p].no
<1>1. arg[p] \in Messages /\ arg[p].src = p /\ arg[p] \notin Placed
  BY DEF UplinkInv, RouterInv, TypeOK, MqttTypeOK, Calls, OwnMessage, Numbered, Busy
<1>2. ASSUME NEW x \in Placed, x.src = p PROVE x.no < arg[p].no
  <2>1. x \in Messages /\ x.no <= arg[p].no /\ x # arg[p]
    BY <1>1, <1>2, PlacedFacts DEF UplinkInv, Numbered
  <2>2. x.no # arg[p].no /\ x.no \in Nat /\ arg[p].no \in Nat
    BY <1>1, <1>2, <2>1, SameMessage, MessageFacts
  <2> QED  BY <2>1, <2>2
<1> QED  BY <1>1, <1>2

\* The oldest of the outbox is nowhere else, and older than what is behind it.
LEMMA HeadAlone ==
  ASSUME UplinkInv, outbox # <<>>
  PROVE  /\ Head(outbox) \in Messages /\ Tail(outbox) \in Seq(Messages) /\ Rising(Tail(outbox))
         /\ Range(outbox) = Range(Tail(outbox)) \cup {Head(outbox)}
         /\ \A m \in Range(Tail(outbox)) : m.src = Head(outbox).src => Head(outbox).no < m.no
         /\ Head(outbox) \notin Range(Tail(outbox)) /\ Head(outbox) # held
         /\ Head(outbox) \notin given /\ Head(outbox) \notin lost
<1>1. /\ Head(outbox) \in Messages /\ Tail(outbox) \in Seq(Messages) /\ Rising(Tail(outbox))
      /\ Range(outbox) = Range(Tail(outbox)) \cup {Head(outbox)}
      /\ \A m \in Range(Tail(outbox)) : m.src = Head(outbox).src => Head(outbox).no < m.no
  BY PlacedFacts, TakeFacts DEF UplinkInv
<1>2. Head(outbox).no \in Nat
  BY <1>1, MessageFacts
<1>3. Head(outbox) \notin Range(Tail(outbox)) /\ Head(outbox) # held
  BY <1>1, <1>2 DEF UplinkInv, HeldFirst
<1>4. Head(outbox) \notin given /\ Head(outbox) \notin lost
  BY <1>1 DEF UplinkInv, Apart, Waiting
<1> QED  BY <1>1, <1>3, <1>4

\* The message of the drain thread is nowhere else.
LEMMA HeldAlone ==
  ASSUME UplinkInv, drain = "holding"
  PROVE  held \in Messages /\ held \notin Range(outbox) /\ held \notin given /\ held \notin lost
<1>1. held \in Messages
  BY PlacedFacts DEF UplinkInv, RouterInv, TypeOK, MqttTypeOK
<1>2. held.no \in Nat
  BY <1>1, MessageFacts
<1> QED  BY <1>1, <1>2 DEF UplinkInv, HeldFirst, Apart, Waiting

\* publish: its message is placed when it leaves the thread, once; to make
\* room, a message goes from the outbox to the lost ones.
LEMMA PlacePublished ==
  ASSUME UplinkInv, NEW p \in Publishers, PublishNext(p)
  PROVE  /\ Rising(outbox)' /\ HeldFirst' /\ Apart' /\ lost \subseteq lost'
         /\ \/ Placed' = Placed
            \/ Placed' = Placed \cup {arg[p]} /\ at'[p] \in {"returned", "raised"}
         /\ at'[p] = "raised" => arg[p] \in lost'
<1> DEFINE m == arg[p]
<1>1. /\ at[p] \in Busy /\ UNCHANGED <<held, arg>> /\ p \in DOMAIN at
      /\ outbox \in Seq(Messages) /\ Rising(outbox) /\ HeldFirst /\ Apart
  BY PublishStep DEF UplinkInv, RouterInv, TypeOK, MqttTypeOK, Apart
<1>2. /\ m \in Messages /\ m.src = p /\ m \notin Placed
      /\ \A x \in Placed : x.src = p => x.no < m.no
  BY <1>1, BusyNewest
<1>3. /\ Range(outbox) \subseteq Placed /\ given \subseteq Placed /\ lost \subseteq Placed
      /\ held # NoMessage => held \in Placed
      /\ NoMessage \notin Messages /\ Placed \subseteq Messages
      /\ Placed = given \cup lost \cup Range(outbox) \cup ({held} \ {NoMessage})
  BY PlacedFacts DEF UplinkInv
<1>4. held.src = m.src => held.no < m.no
  <2>1. CASE held = NoMessage
    BY <1>2, <2>1, MessageFacts DEF NoMessage
  <2>2. CASE held # NoMessage
    BY <1>2, <1>3, <2>2
  <2> QED  BY <2>1, <2>2
<1>5. CASE given' = given \cup {m} /\ UNCHANGED <<outbox, lost>> /\ at'[p] = "returned"
  BY <1>1, <1>2, <1>3, <1>5 DEF HeldFirst, Apart, Waiting, Placed
<1>6. CASE outbox' = Append(outbox, m) /\ UNCHANGED <<given, lost>> /\ at'[p] = "returned"
  <2>1. Range(outbox') = Range(outbox) \cup {m}
    BY <1>1, <1>2, <1>6, PutFacts
  <2>2. \A x \in Range(outbox) : x.src = m.src => x.no < m.no
    BY <1>2, <1>3
  <2>3. Rising(outbox')
    BY <1>1, <1>2, <1>6, <2>2, PutFacts
  <2>4. HeldFirst'
    BY <1>1, <1>4, <2>1 DEF HeldFirst
  <2> QED  BY <1>1, <1>2, <1>3, <1>6, <2>1, <2>3, <2>4 DEF Apart, Waiting, Placed, Rising
<1>7. CASE lost' = lost \cup {m} /\ UNCHANGED <<outbox, given>> /\ at'[p] = "raised"
  BY <1>1, <1>2, <1>3, <1>7 DEF HeldFirst, Apart, Waiting, Placed
<1>8. CASE /\ outbox # <<>> /\ outbox' = Tail(outbox) /\ lost' = lost \cup {Head(outbox)}
           /\ UNCHANGED given /\ at'[p] = "again"
  <2>1. /\ Range(outbox) = Range(outbox') \cup {Head(outbox)} /\ Rising(outbox')
        /\ Head(outbox) \notin Range(outbox') /\ Head(outbox) # held
        /\ Head(outbox) \notin given /\ Head(outbox) \in Messages
    BY <1>8, HeadAlone
  <2>2. HeldFirst'
    BY <1>1, <2>1 DEF HeldFirst
  <2> QED  BY <1>1, <1>3, <1>8, <2>1, <2>2 DEF Apart, Waiting, Placed, Rising
<1>9. CASE UNCHANGED <<outbox, given, lost>> /\ at'[p] \in {"full", "again"}
  BY <1>1, <1>9 DEF HeldFirst, Apart, Waiting, Placed
<1>10. \/ given' = given \cup {m} /\ UNCHANGED <<outbox, lost>> /\ at'[p] = "returned"
       \/ outbox' = Append(outbox, m) /\ UNCHANGED <<given, lost>> /\ at'[p] = "returned"
       \/ lost' = lost \cup {m} /\ UNCHANGED <<outbox, given>> /\ at'[p] = "raised"
       \/ /\ outbox # <<>> /\ outbox' = Tail(outbox) /\ lost' = lost \cup {Head(outbox)}
          /\ UNCHANGED given /\ at'[p] = "again"
       \/ UNCHANGED <<outbox, given, lost>> /\ at'[p] \in {"full", "again"}
  <2> USE DEF box, tally
  <2>1. CASE Direct(p)
    BY <1>1, <2>1 DEF Direct, Hand
  <2>2. CASE Put(p)
    BY <1>1, <2>2 DEF Put
  <2>3. CASE MakeRoom(p)
    BY <1>1, <2>3 DEF MakeRoom
  <2>4. CASE PutAgain(p)
    BY <1>1, <2>4 DEF PutAgain
  <2> QED  BY <2>1, <2>2, <2>3, <2>4 DEF PublishNext
<1> QED  BY <1>5, <1>6, <1>7, <1>8, <1>9, <1>10

\* The drain thread moves a message on, and loses none.
LEMMA PlaceDrained ==
  ASSUME UplinkInv, DrainNext
  PROVE  /\ Rising(outbox)' /\ HeldFirst' /\ Apart' /\ Placed' = Placed
         /\ UNCHANGED <<at, arg, lost>>
<1>1. /\ outbox \in Seq(Messages) /\ Rising(outbox) /\ HeldFirst /\ Apart
      /\ Range(outbox) \subseteq Messages /\ given \subseteq Messages /\ lost \subseteq Messages
      /\ NoMessage \notin Messages
  BY PlacedFacts DEF UplinkInv
<1>2. UNCHANGED <<at, arg, lost>>
  BY DEF DrainNext, DrainWake, DrainTake, DrainHand, Hand, tally
<1>3. CASE UNCHANGED <<outbox, held, given>>
  BY <1>1, <1>2, <1>3 DEF HeldFirst, Apart, Waiting, Placed, Rising
<1>4. CASE DrainTake /\ outbox # <<>>
  <2>1. /\ held = NoMessage /\ held' = Head(outbox) /\ outbox' = Tail(outbox) /\ UNCHANGED given
    BY <1>4 DEF DrainTake, tally, UplinkInv, RouterInv, TypeOK, MqttTypeOK
  <2>2. /\ Range(outbox) = Range(outbox') \cup {held'} /\ Rising(outbox')
        /\ \A m \in Range(outbox') : m.src = held'.src => held'.no < m.no
    BY <1>4, <2>1, HeadAlone
  <2>3. HeldFirst'
    BY <2>2 DEF HeldFirst
  <2> QED  BY <1>1, <1>2, <2>1, <2>2, <2>3 DEF Apart, Waiting, Placed, Rising
<1>5. CASE DrainHand
  <2>1. held \in Messages /\ held \notin Range(outbox) /\ held \notin lost
    BY <1>5, HeldAlone DEF DrainHand
  <2>2. given' = given \cup {held} /\ held' = NoMessage /\ outbox' = outbox
    BY <1>5 DEF DrainHand, Hand
  <2>3. HeldFirst'
    <3>1. \A m \in Range(outbox) : NoMessage.no < m.no
      BY <1>1, MessageFacts DEF NoMessage
    <3> QED  BY <2>2, <3>1 DEF HeldFirst
  <2> QED  BY <1>1, <1>2, <2>1, <2>2, <2>3 DEF Apart, Waiting, Placed, Rising
<1>6. CASE DrainWake \/ (DrainTake /\ outbox = <<>>)
  BY <1>3, <1>6 DEF DrainWake, DrainTake, tally
<1> QED  BY <1>4, <1>5, <1>6 DEF DrainNext

\* A publisher that speaks is at a message newer than all it has placed.
LEMMA NumberedTalk ==
  ASSUME UplinkInv, NEW p \in Publishers, UNCHANGED <<box, tally>>,
         (\E m \in Messages : Speaks(p, m)) \/ UNCHANGED <<at, arg>> \/ Rests(p)
  PROVE  Placed' = Placed /\ Numbered' /\ UNCHANGED <<Rising(outbox), HeldFirst, Apart>>
<1>1. Placed' = Placed /\ UNCHANGED <<outbox, held, given, lost>>
  BY DEF Placed, Waiting, box, tally
<1>2. /\ \A x \in Placed : x.no <= arg[x.src].no
      /\ \A q \in Publishers : at[q] \in Busy => arg[q] \notin Placed
      /\ at \in [Publishers -> {"idle", "direct", "put", "full", "again", "returned", "raised"}]
      /\ arg \in [Publishers -> Messages \cup {NoMessage}]
      /\ Placed \subseteq Messages
  BY PlacedFacts DEF UplinkInv, Numbered, RouterInv, TypeOK, MqttTypeOK
<1>3. ASSUME NEW m \in Messages, Speaks(p, m) PROVE Numbered'
  <2>1. /\ m.no \in Nat /\ arg[p].no \in Nat /\ m.src = p /\ arg[p].no < m.no
        /\ arg' = [arg EXCEPT ![p] = m] /\ \A q \in Publishers \ {p} : at'[q] = at[q]
    BY <1>2, <1>3, MessageFacts DEF Speaks, NoMessage
  <2>2. \A x \in Placed : x.src = p => x.no < m.no
    BY <1>2, <2>1, MessageFacts
  <2>3. m \notin Placed
    BY <2>1, <2>2
  <2>4. \A x \in Placed : x.no <= arg'[x.src].no
    <3>1. SUFFICES ASSUME NEW x \in Placed PROVE x.no <= arg'[x.src].no
      OBVIOUS
    <3>2. x.src \in Publishers /\ x.no \in Nat
      BY <1>2, MessageFacts
    <3>3. CASE x.src = p
      BY <1>2, <2>1, <2>2, <3>2, <3>3
    <3>4. CASE x.src # p
      BY <1>2, <2>1, <3>2, <3>4
    <3> QED  BY <3>3, <3>4
  <2>5. \A q \in Publishers : at'[q] \in Busy => arg'[q] \notin Placed
    BY <1>2, <2>1, <2>3
  <2> QED  BY <1>1, <2>4, <2>5 DEF Numbered
<1>4. ASSUME UNCHANGED <<at, arg>> \/ Rests(p) PROVE Numbered'
  <2>1. arg' = arg /\ \A q \in Publishers : at'[q] \in Busy => at[q] \in Busy
    BY <1>2, <1>4 DEF Rests, Busy
  <2> QED  BY <1>1, <1>2, <2>1 DEF Numbered
<1> QED  BY <1>1, <1>3, <1>4 DEF Rising, HeldFirst, Apart, Waiting

\* The client keeps to the numbers of the messages.
LEMMA NumberedPublish ==
  ASSUME UplinkInv, NEW p \in Publishers, PublishNext(p)
  PROVE  Numbered'
<1>1. /\ at[p] \in Busy /\ UNCHANGED arg
      /\ \E x \in {"full", "again", "returned", "raised"} : at' = [at EXCEPT ![p] = x]
      /\ at \in [Publishers -> {"idle", "direct", "put", "full", "again", "returned", "raised"}]
  BY PublishStep DEF UplinkInv, RouterInv, TypeOK, MqttTypeOK
<1>2. /\ arg[p] \in Messages /\ arg[p].src = p /\ arg[p] \notin Placed /\ arg[p].no \in Nat
      /\ \A x \in Placed : x.no <= arg[x.src].no
      /\ \A q \in Publishers : at[q] \in Busy => arg[q] \notin Placed
  BY <1>1, BusyNewest, MessageFacts DEF UplinkInv, Numbered
<1>3. \/ Placed' = Placed
      \/ Placed' = Placed \cup {arg[p]} /\ at'[p] \in {"returned", "raised"}
  BY PlacePublished
<1>4. \A q \in Publishers \ {p} : at'[q] = at[q] /\ (at[q] \in Busy => arg[q] # arg[p])
  <2>1. \A q \in Publishers \ {p} : at[q] \in Busy => arg[q].src = q
    BY BusyNewest
  <2> QED  BY <1>1, <1>2, <2>1
<1>5. at[p] \in Busy /\ (at'[p] \in Busy => Placed' = Placed)
  BY <1>1, <1>3 DEF Busy
<1> QED  BY <1>1, <1>2, <1>3, <1>4, <1>5 DEF Numbered

\* Every step keeps every message at one place.
LEMMA UplinkNext ==
  ASSUME UplinkInv, [Next]_vars
  PROVE  UplinkInv'
<1>1. RouterInv'
  BY RouterNext DEF UplinkInv
<1>2. ASSUME UNCHANGED <<box, at, arg, tally>> PROVE UplinkInv'
  BY <1>1, <1>2 DEF UplinkInv, Numbered, Placed, Waiting, Rising, HeldFirst, Apart, box, tally
<1>3. CASE UNCHANGED vars
  BY <1>2, <1>3 DEF vars, mqttVars
<1>4. ASSUME NEW c \in Commands,
             CommandThread(c) \/ \E raw \in Payloads : HandleCommand(c, raw)
      PROVE  UplinkInv'
  <2>1. /\ UNCHANGED <<box, tally>> /\ c \in Publishers
        /\ (\E m \in Messages : Speaks(c, m)) \/ UNCHANGED <<at, arg>> \/ Rests(c)
    <3>1. \E s \in {"refused", "QUEUED", "EXECUTING", "sending", "SUCCESS", "ERROR",
                    "EXCEPTION", "over"} :
              /\ s \in Talking => Speaks(c, Said(c, s))
              /\ s = "sending" => UNCHANGED <<at, arg>>
              /\ s = "refused" => UNCHANGED <<at, arg>>
              /\ s = "over" => Rests(c)
      BY <1>4, CommandStep DEF UplinkInv
    <3>2. UNCHANGED <<box, tally>>
      BY <1>4, CommandStep DEF UplinkInv
    <3>3. \A s \in Talking : Said(c, s) \in Messages
      BY MessageFacts
    <3> QED  BY <3>1, <3>2, <3>3, PublishersAssumption DEF Talking
  <2> QED  BY <1>1, <2>1, NumberedTalk DEF UplinkInv
<1>5. CASE ReportJob \/ EndReports
  <2>1. /\ UNCHANGED <<box, tally>> /\ JobReporter \in Publishers
        /\ (\E m \in Messages : Speaks(JobReporter, m)) \/ Rests(JobReporter)
    BY <1>5, ReportStep, MessageFacts, PublishersAssumption DEF UplinkInv
  <2> QED  BY <1>1, <2>1, NumberedTalk DEF UplinkInv
<1>6. ASSUME NEW p \in Publishers, PublishNext(p) PROVE UplinkInv'
  BY <1>1, <1>6, PlacePublished, NumberedPublish DEF UplinkInv
<1>7. CASE DrainNext
  <2>1. Rising(outbox)' /\ HeldFirst' /\ Apart' /\ Placed' = Placed /\ UNCHANGED <<at, arg>>
    BY <1>7, PlaceDrained
  <2> QED  BY <1>1, <2>1 DEF UplinkInv, Numbered
<1>8. CASE DialNext \/ PahoNext \/ Stop
  <2>1. UNCHANGED <<outbox, held, at, arg, given, lost>>
    BY <1>8, ConnectionStep DEF UplinkInv
  <2> QED  BY <1>1, <2>1 DEF UplinkInv, Numbered, Placed, Waiting, Rising, HeldFirst, Apart
<1> QED  BY <1>3, <1>4, <1>5, <1>6, <1>7, <1>8 DEF Next, MqttNext

\* Nothing is placed at the start.
LEMMA UplinkInit == Init => UplinkInv
<1> SUFFICES ASSUME Init PROVE UplinkInv
  OBVIOUS
<1>1. Range(outbox) = {} /\ DOMAIN outbox = {} /\ Placed = {}
  BY DEF Init, MqttInit, Range, Placed, Waiting
<1>2. given = {} /\ lost = {} /\ \A p \in Publishers : at[p] = "idle"
  BY DEF Init, MqttInit
<1> QED  BY <1>1, <1>2, RouterInit DEF UplinkInv, Numbered, Rising, HeldFirst, Apart, Busy

\* A message is at one place; those of one publisher wait in the order of its
\* calls.
THEOREM UplinkInvTheorem == Spec => []UplinkInv
<1>1. UplinkInv /\ [Next]_vars => UplinkInv'
  BY UplinkNext
<1> QED  BY <1>1, UplinkInit, PTL DEF Spec

-----------------------------------------------------------------------------
(* The client implements Uplink: the initial state is one of the channel,  *)
(* and every step of a publisher, of the drain thread, of the connection   *)
(* or of a caller is a step of the channel or none.                        *)

\* A message put in front of a backlog.
LEMMA FrontFacts ==
  ASSUME NEW q \in Seq(Messages), NEW h \in Messages
  PROVE  /\ <<h>> \o q \in Seq(Messages) /\ <<h>> \o q # <<>>
         /\ Len(<<h>> \o q) = Len(q) + 1 /\ Len(q) \in Nat
         /\ Head(<<h>> \o q) = h /\ Tail(<<h>> \o q) = q
         /\ \A i \in 1..Len(q) : (<<h>> \o q)[i + 1] = q[i]
         /\ (<<h>> \o q)[1] = h
<1> DEFINE b == <<h>> \o q
<1>1. <<h>> \in Seq(Messages) /\ Len(<<h>>) = 1 /\ <<h>>[1] = h /\ Len(q) \in Nat
  BY LenProperties
<1>2. /\ b \in Seq(Messages) /\ Len(b) = Len(q) + 1
      /\ \A i \in 1..Len(q) + 1 : b[i] = IF i <= 1 THEN <<h>>[i] ELSE q[i - 1]
  BY <1>1, ConcatProperties
<1> HIDE DEF b
<1>3. b[1] = h
  BY <1>1, <1>2
<1>4. \A i \in 1..Len(q) : b[i + 1] = q[i]
  <2>1. SUFFICES ASSUME NEW i \in 1..Len(q) PROVE b[i + 1] = q[i]
    OBVIOUS
  <2>2. i + 1 \in 1..Len(q) + 1 /\ ~(i + 1 <= 1) /\ (i + 1) - 1 = i
    BY <1>1
  <2> QED  BY <1>2, <2>2
<1>5. b # <<>> /\ Head(b) = h
  BY <1>1, <1>2, <1>3
<1>6. Tail(b) = q
  <2>1. /\ Tail(b) \in Seq(Messages) /\ Len(Tail(b)) = Len(q)
        /\ \A i \in 1..Len(q) : Tail(b)[i] = b[i + 1]
    BY <1>1, <1>2, <1>5, HeadTailProperties
  <2> QED  BY <1>4, <2>1, SeqEqual
<1> QED  BY <1>1, <1>2, <1>3, <1>4, <1>5, <1>6 DEF b

\* The backlog with a message in the hands of the drain thread, and without.
LEMMA BacklogFacts ==
  ASSUME RouterInv
  PROVE  /\ held = NoMessage => Backlog = outbox
         /\ held # NoMessage => Backlog = <<held>> \o outbox
         /\ Backlog \in Seq(Messages) /\ Len(outbox) \in Nat
         /\ Len(Backlog) \in {Len(outbox), Len(outbox) + 1}
         /\ \A i \in DOMAIN Backlog : Backlog[i] \in Placed
<1>1. outbox \in Seq(Messages) /\ held \in Messages \cup {NoMessage} /\ Len(outbox) \in Nat
      /\ DOMAIN outbox = 1..Len(outbox)
  BY PlacedFacts, LenProperties
<1>2. \A i \in DOMAIN outbox : outbox[i] \in Placed
  BY PlacedFacts DEF Range
<1>3. CASE held = NoMessage
  <2>1. Backlog = outbox
    BY <1>1, <1>3, ConcatEmptySeq DEF Backlog
  <2> QED  BY <1>1, <1>2, <1>3, <2>1
<1>4. CASE held # NoMessage
  <2>1. Backlog = <<held>> \o outbox /\ held \in Messages /\ held \in Placed
    BY <1>1, <1>4, PlacedFacts DEF Backlog
  <2>2. /\ Backlog \in Seq(Messages) /\ Len(Backlog) = Len(outbox) + 1 /\ Backlog[1] = held
        /\ \A i \in 1..Len(outbox) : Backlog[i + 1] = outbox[i]
    BY <1>1, <2>1, FrontFacts
  <2>3. DOMAIN Backlog = 1..Len(outbox) + 1
    BY <2>2, LenProperties
  <2>4. ASSUME NEW i \in DOMAIN Backlog PROVE Backlog[i] \in Placed
    <3>1. CASE i = 1
      BY <2>1, <2>2, <3>1
    <3>2. CASE i # 1
      <4>1. i - 1 \in 1..Len(outbox) /\ (i - 1) + 1 = i
        BY <1>1, <2>3, <3>2
      <4> QED  BY <1>1, <1>2, <2>2, <4>1
    <3> QED  BY <3>1, <3>2
  <2> QED  BY <1>1, <1>4, <2>1, <2>2, <2>4
<1> QED  BY <1>3, <1>4

\* What publish appends to the outbox is appended to the backlog.
LEMMA BacklogKeeps ==
  ASSUME RouterInv, NEW m \in Messages, outbox' = Append(outbox, m), held' = held
  PROVE  Backlog' = Append(Backlog, m)
<1>1. outbox \in Seq(Messages) /\ held \in Messages \cup {NoMessage}
      /\ Append(outbox, m) \in Seq(Messages)
      /\ (held = NoMessage => Backlog = outbox)
      /\ (held # NoMessage => Backlog = <<held>> \o outbox)
  BY PlacedFacts, BacklogFacts, AppendProperties
<1>2. CASE held = NoMessage
  <2>1. Backlog' = outbox'
    BY <1>1, <1>2, ConcatEmptySeq DEF Backlog
  <2> QED  BY <1>1, <1>2, <2>1
<1>3. CASE held # NoMessage
  <2>1. Backlog' = <<held>> \o Append(outbox, m) /\ held \in Messages
    BY <1>1, <1>3 DEF Backlog
  <2>2. <<m>> \in Seq(Messages) /\ <<held>> \in Seq(Messages)
        /\ <<held>> \o outbox \in Seq(Messages)
    BY <1>1, <2>1, ConcatProperties
  <2>3. Append(outbox, m) = outbox \o <<m>>
        /\ Append(<<held>> \o outbox, m) = (<<held>> \o outbox) \o <<m>>
    BY <1>1, <2>2, AppendIsConcat
  <2>4. (<<held>> \o outbox) \o <<m>> = <<held>> \o (outbox \o <<m>>)
    BY <1>1, <2>2, ConcatAssociative
  <2> QED  BY <1>1, <1>3, <2>1, <2>3, <2>4
<1> QED  BY <1>2, <1>3

\* Without its first message, or its second, a backlog is what publish leaves
\* of it to make room.
LEMMA ShedFacts ==
  ASSUME NEW q \in Seq(Messages), q # <<>>
  PROVE  /\ SubSeq(q, 1, 0) \o SubSeq(q, 2, Len(q)) = Tail(q)
         /\ \A h \in Messages :
              LET b == <<h>> \o q IN SubSeq(b, 1, 1) \o SubSeq(b, 3, Len(b)) = <<h>> \o Tail(q)
<1>1. SubSeq(q, 1, 0) = <<>> /\ SubSeq(q, 2, Len(q)) = Tail(q) /\ Tail(q) \in Seq(Messages)
      /\ Len(q) \in Nat \ {0} /\ Len(Tail(q)) = Len(q) - 1
      /\ \A i \in 1..Len(q) - 1 : Tail(q)[i] = q[i + 1]
  BY SubSeqEmpty, TailIsSubSeq, HeadTailProperties, EmptySeq
<1>2. ASSUME NEW h \in Messages
      PROVE  LET b == <<h>> \o q IN SubSeq(b, 1, 1) \o SubSeq(b, 3, Len(b)) = <<h>> \o Tail(q)
  <2> DEFINE b == <<h>> \o q
  <2>1. /\ b \in Seq(Messages) /\ Len(b) = Len(q) + 1 /\ b[1] = h
        /\ \A i \in 1..Len(q) : b[i + 1] = q[i]
    BY FrontFacts
  <2> HIDE DEF b
  <2>2. SubSeq(b, 1, 1) = <<h>>
    <3>1. \A i \in 1..1 : b[i] \in Messages
      BY <2>1
    <3>2. SubSeq(b, 1, 1) \in Seq(Messages) /\ Len(SubSeq(b, 1, 1)) = 1 /\ SubSeq(b, 1, 1)[1] = b[1]
      BY <3>1, SubSeqProperties
    <3>3. <<h>> \in Seq(Messages) /\ Len(<<h>>) = 1 /\ <<h>>[1] = h
      OBVIOUS
    <3>4. \A i \in 1..1 : SubSeq(b, 1, 1)[i] = <<h>>[i]
      BY <2>1, <3>2, <3>3
    <3> QED  BY <3>2, <3>3, <3>4, SeqEqual
  <2>3. SubSeq(b, 3, Len(b)) = Tail(q)
    <3>0. Len(b) \in Int /\ DOMAIN b = 1..Len(b) /\ \A i \in 3..Len(b) : i \in 1..Len(b) /\ b[i] \in Messages
      BY <1>1, <2>1, LenProperties
    <3>1. /\ SubSeq(b, 3, Len(b)) \in Seq(Messages)
          /\ Len(SubSeq(b, 3, Len(b))) = Len(b) - 2
          /\ \A i \in 1..Len(b) - 2 : SubSeq(b, 3, Len(b))[i] = b[i + 2]
      <4>1. /\ SubSeq(b, 3, Len(b)) \in Seq(Messages)
            /\ Len(SubSeq(b, 3, Len(b))) = IF 3 <= Len(b) THEN Len(b) - 3 + 1 ELSE 0
            /\ \A i \in 1..Len(b) - 3 + 1 : SubSeq(b, 3, Len(b))[i] = b[3 + i - 1]
        BY <3>0, SubSeqProperties
      <4>2. Len(b) \in Nat /\ Len(b) >= 2 /\ Len(b) - 3 + 1 = Len(b) - 2
        BY <1>1, <2>1
      <4>3. \A i \in 1..Len(b) - 2 : 3 + i - 1 = i + 2
        BY <4>2
      <4> QED  BY <4>1, <4>2, <4>3
    <3>2. \A i \in 1..Len(q) - 1 : b[i + 2] = q[i + 1]
      <4>1. SUFFICES ASSUME NEW i \in 1..Len(q) - 1 PROVE b[i + 2] = q[i + 1]
        OBVIOUS
      <4>2. i + 1 \in 1..Len(q) /\ (i + 1) + 1 = i + 2
        BY <1>1
      <4> QED  BY <2>1, <4>2
    <3>3. Len(b) - 2 = Len(q) - 1
      BY <1>1, <2>1
    <3>4. Len(Tail(q)) = Len(SubSeq(b, 3, Len(b)))
          /\ \A i \in 1..Len(SubSeq(b, 3, Len(b))) : SubSeq(b, 3, Len(b))[i] = Tail(q)[i]
      BY <1>1, <3>1, <3>2, <3>3
    <3> QED  BY <1>1, <3>1, <3>4, SeqEqual
  <2> QED  BY <2>2, <2>3 DEF b
<1>3. SubSeq(q, 1, 0) \o SubSeq(q, 2, Len(q)) = Tail(q)
  BY <1>1, ConcatEmptySeq
<1> QED  BY <1>2, <1>3

\* What is not placed is new to the channel.
LEMMA FreshFacts ==
  ASSUME RouterInv, NEW m \in Messages, m \notin Placed
  PROVE  U!Fresh(m)
  BY PlacedFacts, BacklogFacts DEF U!Fresh

\* publish passes its message on, keeps it, sheds another one for it, or
\* refuses it.
LEMMA PublishRefines ==
  ASSUME UplinkInv, NEW p \in Publishers, PublishNext(p)
  PROVE  [U!Next]_(U!channel)
<1> DEFINE m == arg[p]
<1>1. /\ RouterInv /\ UNCHANGED held /\ m \in Messages /\ U!Fresh(m)
      /\ outbox \in Seq(Messages) /\ held \in Messages \cup {NoMessage}
      /\ Capacity \in Nat
  <2>1. RouterInv /\ UNCHANGED held /\ at[p] \in Busy
    BY PublishStep DEF UplinkInv
  <2> QED  BY <2>1, BusyNewest, FreshFacts, PlacedFacts, CapacityAssumption
<1>2. CASE given' = given \cup {m} /\ UNCHANGED <<outbox, lost>>
  <2>1. U!Pass(m)
    BY <1>1, <1>2 DEF U!Pass, Backlog
  <2> QED  BY <1>1, <2>1 DEF U!Next
<1>3. CASE outbox' = Append(outbox, m) /\ Len(outbox) < Capacity /\ UNCHANGED <<given, lost>>
  <2>1. Backlog' = Append(Backlog, m)
    BY <1>1, <1>3, BacklogKeeps
  <2>2. Len(Backlog) <= Capacity
    <3>1. Len(outbox) \in Nat /\ Len(Backlog) \in {Len(outbox), Len(outbox) + 1}
      BY <1>1, BacklogFacts
    <3> QED  BY <1>1, <1>3, <3>1
  <2>3. U!Keep(m)
    BY <1>1, <1>3, <2>1, <2>2 DEF U!Keep
  <2> QED  BY <1>1, <2>3 DEF U!Next
<1>4. CASE lost' = lost \cup {m} /\ UNCHANGED <<outbox, given>>
  <2>1. U!Refuse(m)
    BY <1>1, <1>4 DEF U!Refuse, Backlog
  <2> QED  BY <1>1, <2>1 DEF U!Next
<1>5. CASE /\ outbox # <<>> /\ outbox' = Tail(outbox) /\ lost' = lost \cup {Head(outbox)}
           /\ UNCHANGED given
  <2>0. Tail(outbox) \in Seq(Messages) /\ Head(outbox) = outbox[1] /\ Len(outbox) \in Nat \ {0}
    BY <1>1, <1>5, HeadTailProperties, EmptySeq
  <2>1. CASE held = NoMessage
    <3>1. Backlog = outbox /\ Backlog' = outbox'
      BY <1>1, <1>5, <2>0, <2>1, ConcatEmptySeq DEF Backlog
    <3>2. 1 \in DOMAIN Backlog
      BY <1>1, <2>0, <3>1, LenProperties
    <3>3. Backlog' = SubSeq(Backlog, 1, 0) \o SubSeq(Backlog, 2, Len(Backlog))
      BY <1>1, <1>5, <3>1, ShedFacts
    <3>4. U!Shed(1)
      <4>1. Backlog' = SubSeq(Backlog, 1, 1 - 1) \o SubSeq(Backlog, 1 + 1, Len(Backlog))
        <5>1. 1 - 1 = 0 /\ 1 + 1 = 2
          OBVIOUS
        <5> QED  BY <3>3, <5>1
      <4> QED  BY <1>5, <2>0, <3>1, <3>2, <4>1 DEF U!Shed
    <3> QED  BY <3>4 DEF U!Next
  <2>2. CASE held # NoMessage
    <3>1. /\ held \in Messages /\ Backlog = <<held>> \o outbox
          /\ Backlog' = <<held>> \o Tail(outbox)
      BY <1>1, <1>5, <2>2 DEF Backlog
    <3>2. /\ Backlog \in Seq(Messages) /\ Len(Backlog) = Len(outbox) + 1
          /\ Backlog[2] = outbox[1]
      <4>1. \A i \in 1..Len(outbox) : (<<held>> \o outbox)[i + 1] = outbox[i]
        BY <1>1, <3>1, FrontFacts
      <4>2. 1 \in 1..Len(outbox) /\ 1 + 1 = 2
        BY <2>0
      <4>3. (<<held>> \o outbox)[2] = outbox[1]
        BY <4>1, <4>2
      <4> QED  BY <1>1, <3>1, <4>3, FrontFacts
    <3>3. 2 \in DOMAIN Backlog
      BY <2>0, <3>2, LenProperties
    <3>4. Backlog' = SubSeq(Backlog, 1, 1) \o SubSeq(Backlog, 3, Len(Backlog))
      BY <1>1, <1>5, <3>1, ShedFacts
    <3>5. U!Shed(2)
      <4>1. Backlog' = SubSeq(Backlog, 1, 2 - 1) \o SubSeq(Backlog, 2 + 1, Len(Backlog))
        <5>1. 2 - 1 = 1 /\ 2 + 1 = 3
          OBVIOUS
        <5> QED  BY <3>4, <5>1
      <4> QED  BY <1>5, <2>0, <3>2, <3>3, <4>1 DEF U!Shed
    <3> QED  BY <3>5 DEF U!Next
  <2> QED  BY <2>1, <2>2
<1>6. CASE UNCHANGED <<outbox, given, lost>>
  BY <1>1, <1>6 DEF U!channel, Backlog
<1>7. \/ given' = given \cup {m} /\ UNCHANGED <<outbox, lost>>
      \/ outbox' = Append(outbox, m) /\ Len(outbox) < Capacity /\ UNCHANGED <<given, lost>>
      \/ lost' = lost \cup {m} /\ UNCHANGED <<outbox, given>>
      \/ /\ outbox # <<>> /\ outbox' = Tail(outbox) /\ lost' = lost \cup {Head(outbox)}
         /\ UNCHANGED given
      \/ UNCHANGED <<outbox, given, lost>>
  <2> USE DEF box, tally
  <2>1. CASE Direct(p)
    BY <2>1 DEF Direct, Hand
  <2>2. CASE Put(p)
    BY <2>2 DEF Put
  <2>3. CASE MakeRoom(p)
    BY <2>3 DEF MakeRoom
  <2>4. CASE PutAgain(p)
    BY <2>4 DEF PutAgain
  <2> QED  BY <2>1, <2>2, <2>3, <2>4 DEF PublishNext
<1> QED  BY <1>2, <1>3, <1>4, <1>5, <1>6, <1>7

\* The drain thread hands the oldest message over; that it takes it first is
\* no step of the channel.
LEMMA DrainRefines ==
  ASSUME UplinkInv, DrainNext
  PROVE  [U!Next]_(U!channel)
<1>1. RouterInv /\ outbox \in Seq(Messages)
  BY PlacedFacts DEF UplinkInv
<1>2. CASE DrainTake /\ outbox # <<>>
  <2>1. held = NoMessage /\ held' = Head(outbox) /\ outbox' = Tail(outbox) /\ UNCHANGED <<given, lost>>
    BY <1>2 DEF DrainTake, tally, UplinkInv, RouterInv, TypeOK, MqttTypeOK
  <2>2. Head(outbox) \in Messages /\ Tail(outbox) \in Seq(Messages) /\ Head(outbox) # NoMessage
        /\ Len(outbox) \in Nat \ {0} /\ outbox[1] = Head(outbox)
    BY <1>1, <1>2, HeadTailProperties, EmptySeq, MessageFacts
  <2>3. <<Head(outbox)>> \o Tail(outbox) = outbox
    <3>1. /\ <<Head(outbox)>> \o Tail(outbox) \in Seq(Messages)
          /\ Len(<<Head(outbox)>> \o Tail(outbox)) = Len(Tail(outbox)) + 1
          /\ (<<Head(outbox)>> \o Tail(outbox))[1] = Head(outbox)
          /\ \A i \in 1..Len(Tail(outbox)) :
                (<<Head(outbox)>> \o Tail(outbox))[i + 1] = Tail(outbox)[i]
      BY <2>2, FrontFacts
    <3>2. Len(Tail(outbox)) = Len(outbox) - 1
          /\ \A i \in 1..Len(outbox) - 1 : Tail(outbox)[i] = outbox[i + 1]
      BY <1>1, <1>2, HeadTailProperties
    <3>3. Len(<<Head(outbox)>> \o Tail(outbox)) = Len(outbox)
      BY <2>2, <3>1, <3>2
    <3>4. ASSUME NEW i \in 1..Len(outbox)
          PROVE  (<<Head(outbox)>> \o Tail(outbox))[i] = outbox[i]
      <4>1. CASE i = 1
        BY <2>2, <3>1, <4>1
      <4>2. CASE i # 1
        <5>1. i - 1 \in 1..Len(outbox) - 1 /\ (i - 1) + 1 = i
          BY <2>2, <4>2
        <5> QED  BY <3>1, <3>2, <5>1
      <4> QED  BY <4>1, <4>2
    <3> QED  BY <1>1, <3>1, <3>3, <3>4, SeqEqual
  <2>4. Backlog = outbox /\ Backlog' = <<Head(outbox)>> \o Tail(outbox)
    BY <1>1, <2>1, <2>2, ConcatEmptySeq DEF Backlog
  <2> QED  BY <2>1, <2>3, <2>4 DEF U!channel
<1>3. CASE DrainHand
  <2>1. /\ held \in Messages /\ held # NoMessage /\ held' = NoMessage /\ outbox' = outbox
        /\ given' = given \cup {held} /\ UNCHANGED lost
    BY <1>3, HeldAlone, MessageFacts DEF DrainHand, Hand
  <2>2. Backlog = <<held>> \o outbox /\ Backlog' = outbox
    BY <1>1, <2>1, ConcatEmptySeq DEF Backlog
  <2>3. Backlog # <<>> /\ Head(Backlog) = held /\ Tail(Backlog) = outbox
    BY <1>1, <2>1, <2>2, FrontFacts
  <2>4. U!Forward
    BY <2>1, <2>2, <2>3 DEF U!Forward
  <2> QED  BY <2>4 DEF U!Next
<1>4. CASE DrainWake \/ (DrainTake /\ outbox = <<>>)
  BY <1>4 DEF DrainWake, DrainTake, tally, U!channel, Backlog
<1> QED  BY <1>2, <1>3, <1>4 DEF DrainNext

\* MQTTClient keeps its promise, whatever its callers, the drain thread and
\* the connection do: nothing is handed over twice, nothing that was accepted
\* is lost but the oldest of a full outbox, and the backlog goes out in order.
THEOREM UplinkTheorem == Spec => ImplementsUplink
<1>1. Init => U!Init
  <2> SUFFICES ASSUME Init PROVE U!Init
    OBVIOUS
  <2>1. outbox = <<>> /\ held = NoMessage /\ given = {} /\ lost = {} /\ RouterInv
    BY RouterInit DEF Init, MqttInit
  <2> QED  BY <2>1, BacklogFacts DEF U!Init
<1>2. UplinkInv /\ [Next]_vars => [U!Next]_(U!channel)
  <2> SUFFICES ASSUME UplinkInv, [Next]_vars PROVE [U!Next]_(U!channel)
    OBVIOUS
  <2>1. UNCHANGED <<box, tally>> => UNCHANGED U!channel
    BY DEF U!channel, Backlog, box, tally
  <2>2. CASE UNCHANGED vars
    BY <2>1, <2>2 DEF vars, mqttVars
  <2>3. ASSUME NEW c \in Commands,
               CommandThread(c) \/ \E raw \in Payloads : HandleCommand(c, raw)
        PROVE  UNCHANGED U!channel
    BY <2>1, <2>3, CommandStep DEF UplinkInv
  <2>4. CASE ReportJob \/ EndReports
    BY <2>1, <2>4, ReportStep DEF UplinkInv
  <2>5. CASE DialNext \/ PahoNext \/ Stop
    BY <2>5, ConnectionStep DEF UplinkInv, U!channel, Backlog
  <2> QED  BY <2>2, <2>3, <2>4, <2>5, PublishRefines, DrainRefines DEF Next, MqttNext
<1> QED  BY <1>1, <1>2, UplinkInvTheorem, PTL DEF Spec, ImplementsUplink, U!Spec

-----------------------------------------------------------------------------
(* AnswersTrue.                                                            *)

\* A command's messages, in its own words.
LEMMA SaidFacts ==
  ASSUME NEW c \in Commands, NEW v \in Talking
  PROVE  /\ Said(c, v) \in Messages /\ Said(c, v).src = c /\ Said(c, v).no = Number[v]
         /\ \A d \in Commands, w \in Talking : Said(d, w) = Said(c, v) => d = c /\ w = v
<1>1. ASSUME NEW d \in Commands, NEW w \in Talking, Said(d, w) = Said(c, v) PROVE d = c /\ w = v
  <2>1. d = c /\ Number[w] = Number[v]
    BY <1>1 DEF Said
  <2> QED  BY <2>1, NumberFacts DEF Talking
<1> QED  BY <1>1, MessageFacts DEF Said

\* The client does not change what a command's messages say of it.
LEMMA TruthfulMqtt ==
  ASSUME AnswerInv, MqttNext, UNCHANGED routerVars
  PROVE  Truthful'
<1>1. /\ UNCHANGED <<stage, result>> /\ Commands \subseteq Publishers /\ UplinkInv /\ Truthful
      /\ \A c \in Commands : CallOf(c)
  BY PublishersAssumption DEF routerVars, AnswerInv, UplinkInv, RouterInv, Calls
<1>2. ASSUME Placed' = Placed, UNCHANGED <<at, arg>>, lost \subseteq lost' PROVE Truthful'
  BY <1>1, <1>2 DEF Truthful, Said
<1>3. CASE DrainNext
  BY <1>1, <1>2, <1>3, PlaceDrained
<1>4. CASE DialNext \/ PahoNext \/ Stop
  <2>1. UNCHANGED <<outbox, held, at, arg, given, lost>>
    BY <1>1, <1>4, ConnectionStep DEF UplinkInv
  <2> QED  BY <1>2, <2>1 DEF Placed, Waiting
<1>5. ASSUME NEW p \in Publishers, PublishNext(p) PROVE Truthful'
  <2>1. /\ at[p] \in Busy /\ UNCHANGED arg /\ arg[p] \in Messages /\ arg[p].src = p
        /\ \A q \in Publishers \ {p} : at'[q] = at[q]
    BY <1>1, <1>5, PublishStep DEF UplinkInv, RouterInv, TypeOK, MqttTypeOK
  <2>2. /\ lost \subseteq lost' /\ (at'[p] = "raised" => arg[p] \in lost')
        /\ Placed' = Placed \/ Placed' = Placed \cup {arg[p]}
    BY <1>1, <1>5, PlacePublished
  <2>3. ASSUME NEW c \in Commands, NEW w \in {"SUCCESS", "ERROR", "EXCEPTION"},
               Said(c, w) \in Placed'
        PROVE  stage[c] = w \/ Said(c, w) \in Placed
    <3>1. CASE Said(c, w) = arg[p]
      <4>1. p = c /\ w \in Talking
        BY <2>1, <3>1, SaidFacts DEF Talking
      <4>2. stage[c] \in Talking /\ arg[c] = Said(c, stage[c])
        <5>1. CallOf(c) /\ at[c] \in Busy /\ arg[c] \in Messages /\ arg[c] # NoMessage
          BY <1>1, <2>1, <4>1, MessageFacts
        <5>2. stage[c] \notin {"unborn", "refused", "sending", "over"}
          BY <5>1 DEF CallOf, Busy
        <5>3. stage[c] \in Talking
          BY <1>1, <5>2 DEF UplinkInv, RouterInv, TypeOK, Talking
        <5> QED  BY <5>1, <5>3 DEF CallOf
      <4>3. Said(c, stage[c]) = Said(c, w)
        BY <3>1, <4>1, <4>2
      <4>4. stage[c] = w
        <5>1. Number[stage[c]] = Number[w]
          BY <4>3 DEF Said
        <5> QED  BY <4>1, <4>2, <5>1, NumberFacts DEF Talking
      <4> QED  BY <4>4
    <3>2. CASE Said(c, w) # arg[p]
      BY <2>2, <2>3, <3>2
    <3> QED  BY <3>1, <3>2
  <2>4. \A c \in Commands : at'[c] = "raised" => arg'[c] \in lost'
    BY <1>1, <2>1, <2>2 DEF Truthful
  <2>5. \A c \in Commands :
           /\ Said(c, "SUCCESS") \in Placed' => stage[c] = "SUCCESS" \/ Said(c, "SUCCESS") \in Placed
           /\ Said(c, "ERROR") \in Placed' => stage[c] = "ERROR" \/ Said(c, "ERROR") \in Placed
           /\ Said(c, "EXCEPTION") \in Placed'
                 => stage[c] = "EXCEPTION" \/ Said(c, "EXCEPTION") \in Placed
    BY <2>3
  <2> QED  BY <1>1, <2>2, <2>4, <2>5 DEF Truthful, Said
<1> QED  BY <1>3, <1>4, <1>5 DEF MqttNext

\* The thread of a command says what the engine has answered; its second
\* ERROR follows an answer that is lost.
LEMMA TruthfulTalk ==
  ASSUME AnswerInv, NEW c \in Commands,
         CommandThread(c) \/ \E raw \in Payloads : HandleCommand(c, raw)
  PROVE  Truthful'
<1>0. /\ RouterInv /\ Commands \subseteq Publishers /\ CallOf(c) /\ Truthful /\ UplinkInv
      /\ \A x \in Placed : x.no <= arg[x.src].no
      /\ stage \in [Commands -> {"unborn", "refused", "QUEUED", "EXECUTING", "sending",
                                 "SUCCESS", "ERROR", "EXCEPTION", "over"}]
      /\ result \in [Commands -> {"none", "OK", "notOK"}]
      /\ at \in [Publishers -> {"idle", "direct", "put", "full", "again", "returned", "raised"}]
      /\ arg \in [Publishers -> Messages \cup {NoMessage}]
  BY PublishersAssumption DEF AnswerInv, UplinkInv, Numbered, RouterInv, Calls, TypeOK, MqttTypeOK
<1>1. UNCHANGED <<box, tally>>
  BY <1>0, CommandStep
<1>2. PICK s \in {"refused", "QUEUED", "EXECUTING", "sending", "SUCCESS", "ERROR",
                  "EXCEPTION", "over"} :
            /\ stage' = [stage EXCEPT ![c] = s]
            /\ s \in Talking => Speaks(c, Said(c, s))
            /\ s = "sending" => UNCHANGED <<at, arg>> /\ stage[c] = "EXECUTING" /\ at[c] = "returned"
            /\ s = "refused" => UNCHANGED <<at, arg>> /\ stage[c] = "unborn"
            /\ s = "over" => Rests(c)
            /\ s = "EXCEPTION" => stage[c] \in {"SUCCESS", "ERROR"} /\ at[c] = "raised"
            /\ s \in {"SUCCESS", "ERROR"}
                  => /\ stage[c] = "sending"
                     /\ result' = [result EXCEPT ![c] = IF s = "SUCCESS" THEN "OK" ELSE "notOK"]
            /\ s \notin {"SUCCESS", "ERROR"} => UNCHANGED result
  BY <1>0, CommandStep
<1>3. Placed' = Placed /\ lost' = lost
  BY <1>1 DEF Placed, Waiting, box, tally
<1>4. /\ \A d \in Commands \ {c} : /\ stage'[d] = stage[d] /\ result'[d] = result[d]
                                   /\ at'[d] = at[d] /\ arg'[d] = arg[d]
      /\ stage'[c] = s
  BY <1>0, <1>2 DEF Speaks, Rests, Talking
<1>5. s \in {"SUCCESS", "ERROR"}
         => Said(c, "SUCCESS") \notin Placed /\ Said(c, "ERROR") \notin Placed
  <2>1. SUFFICES ASSUME s \in {"SUCCESS", "ERROR"}
                 PROVE  Said(c, "SUCCESS") \notin Placed /\ Said(c, "ERROR") \notin Placed
    OBVIOUS
  <2>2. arg[c].no = 2
    BY <1>0, <1>2, <2>1, NumberFacts DEF CallOf, Said
  <2>3. /\ Said(c, "SUCCESS").src = c /\ Said(c, "SUCCESS").no = 3
        /\ Said(c, "ERROR").src = c /\ Said(c, "ERROR").no = 4
    BY NumberFacts DEF Said
  <2>4. ASSUME NEW x \in Placed, x.src = c PROVE x.no <= 2
    BY <1>0, <2>2, <2>4
  <2> QED  BY <2>3, <2>4
<1>6. s = "EXCEPTION" => \E w \in {"SUCCESS", "ERROR"} : Said(c, w) \in lost
  <2>1. SUFFICES ASSUME s = "EXCEPTION" PROVE \E w \in {"SUCCESS", "ERROR"} : Said(c, w) \in lost
    OBVIOUS
  <2>2. arg[c] \in lost /\ stage[c] \in {"SUCCESS", "ERROR"} /\ arg[c] = Said(c, stage[c])
    BY <1>0, <1>2, <2>1 DEF Truthful, CallOf, Talking
  <2> QED  BY <2>2
<1>7. /\ s = "SUCCESS" => result'[c] = "OK"
      /\ s = "ERROR" => result'[c] = "notOK"
      /\ s \notin {"SUCCESS", "ERROR"} => result'[c] = result[c]
  BY <1>0, <1>2
<1>8. /\ stage'[c] = "SUCCESS" \/ Said(c, "SUCCESS") \in Placed' => result'[c] = "OK"
      /\ stage'[c] = "ERROR" \/ Said(c, "ERROR") \in Placed' => result'[c] = "notOK"
      /\ at'[c] = "raised" => arg'[c] \in lost'
      /\ stage'[c] = "EXCEPTION" \/ Said(c, "EXCEPTION") \in Placed'
            => \E w \in {"SUCCESS", "ERROR"} : Said(c, w) \in lost'
  <2>1. stage'[c] = s
    BY <1>0, <1>2
  <2>2. at'[c] = "raised" => arg'[c] \in lost'
    <3>1. at'[c] = "raised" => at'[c] = at[c] /\ arg'[c] = arg[c]
      BY <1>0, <1>2 DEF Speaks, Rests, Talking
    <3> QED  BY <1>0, <1>3, <3>1 DEF Truthful
  <2> QED  BY <1>0, <1>3, <1>5, <1>6, <1>7, <2>1, <2>2 DEF Truthful
<1> QED  BY <1>0, <1>3, <1>4, <1>8 DEF Truthful, Said

\* AnswerInv, kept by every step.
THEOREM AnswerInvTheorem == Spec => []AnswerInv
<1>1. Init => Truthful
  <2> SUFFICES ASSUME Init PROVE Truthful
    OBVIOUS
  <2>1. Placed = {} /\ (\A c \in Commands : stage[c] = "unborn" /\ at[c] = "idle")
    BY PublishersAssumption DEF Init, MqttInit, Placed, Waiting, Range
  <2> QED  BY <2>1 DEF Truthful
<1>2. AnswerInv /\ [Next]_vars => Truthful'
  <2> SUFFICES ASSUME AnswerInv, [Next]_vars PROVE Truthful'
    OBVIOUS
  <2>1. CASE UNCHANGED vars
    <3>1. UNCHANGED <<stage, result, at, arg, lost, Placed>>
      BY <2>1 DEF vars, mqttVars, routerVars, box, tally, Placed, Waiting
    <3> QED  BY <3>1 DEF AnswerInv, Truthful, Said
  <2>2. CASE ReportJob \/ EndReports
    <3>1. /\ UNCHANGED <<stage, result, box, tally>> /\ Commands \subseteq Publishers \ {JobReporter}
          /\ (\E m \in Messages : Speaks(JobReporter, m)) \/ Rests(JobReporter)
      BY <2>2, ReportStep, MessageFacts, PublishersAssumption, ReporterAssumption
         DEF AnswerInv, UplinkInv
    <3>2. \A c \in Commands : at'[c] = at[c] /\ arg'[c] = arg[c]
      BY <3>1 DEF Speaks, Rests, AnswerInv, UplinkInv, RouterInv, TypeOK, MqttTypeOK
    <3>3. Placed' = Placed /\ lost' = lost
      BY <3>1 DEF Placed, Waiting, box, tally
    <3> QED  BY <3>1, <3>2, <3>3 DEF AnswerInv, Truthful, Said
  <2> QED  BY <2>1, <2>2, TruthfulTalk, TruthfulMqtt DEF Next
<1> QED  BY <1>1, <1>2, UplinkInvTheorem, PTL DEF Spec, AnswerInv

\* What the cloud hears of the end of a command is true and is one thing.
THEOREM AnswersTheorem == Spec => []AnswersTrue
<1>1. ASSUME AnswerInv, NEW c \in Commands
      PROVE  LET ends == {w \in {"SUCCESS", "ERROR", "EXCEPTION"} :
                             Said(c, w) \in given \cup Waiting}
             IN /\ "SUCCESS" \in ends => result[c] = "OK"
                /\ "ERROR" \in ends => result[c] = "notOK"
                /\ "EXCEPTION" \in ends => \E w \in {"SUCCESS", "ERROR"} : Said(c, w) \in lost
                /\ Cardinality(ends) <= 1
  <2> DEFINE ends == {w \in {"SUCCESS", "ERROR", "EXCEPTION"} : Said(c, w) \in given \cup Waiting}
  <2>1. \A w \in ends : Said(c, w) \in Placed /\ Said(c, w) \notin lost
    <3>1. \A w \in ends : Said(c, w) # NoMessage
      BY SaidFacts, MessageFacts DEF Talking
    <3> QED  BY <1>1, <3>1 DEF Placed, AnswerInv, UplinkInv, Apart
  <2>2. /\ "SUCCESS" \in ends => result[c] = "OK"
        /\ "ERROR" \in ends => result[c] = "notOK"
        /\ "EXCEPTION" \in ends => \E w \in {"SUCCESS", "ERROR"} : Said(c, w) \in lost
    BY <1>1, <2>1 DEF AnswerInv, Truthful
  <2>3. \A w \in {"SUCCESS", "ERROR"} :
           Said(c, w) \in lost => /\ w \notin ends /\ (w = "SUCCESS" => result[c] = "OK")
                                  /\ (w = "ERROR" => result[c] = "notOK")
    <3>1. \A w \in {"SUCCESS", "ERROR"} : Said(c, w) \in lost => Said(c, w) \in Placed
      BY SaidFacts, MessageFacts DEF Placed, Talking
    <3> QED  BY <1>1, <2>1, <3>1 DEF AnswerInv, Truthful
  <2>4. "EXCEPTION" \in ends => "SUCCESS" \notin ends /\ "ERROR" \notin ends
    BY <2>2, <2>3
  <2>5. ends = {} \/ \E w : ends = {w}
    <3>1. ends \subseteq {"SUCCESS", "ERROR", "EXCEPTION"}
      OBVIOUS
    <3>2. ~("SUCCESS" \in ends /\ "ERROR" \in ends)
      BY <2>2
    <3> QED  BY <2>4, <3>1, <3>2
  <2>6. Cardinality(ends) <= 1
    <3>1. CASE ends = {}
      <4>1. Cardinality(ends) = 0
        BY <3>1, FS_EmptySet
      <4> QED  BY <4>1
    <3>2. CASE \E w : ends = {w}
      <4>1. Cardinality(ends) = 1
        BY <3>2, FS_Singleton
      <4> QED  BY <4>1
    <3> QED  BY <2>5, <3>1, <3>2
  <2> QED  BY <2>2, <2>6
<1>2. AnswerInv => AnswersTrue
  BY <1>1 DEF AnswersTrue
<1> QED  BY <1>2, AnswerInvTheorem, PTL

-----------------------------------------------------------------------------
(* OrderedUnlessCrossed.                                                   *)

\* What waits is a message, and placed.
LEMMA WaitsFacts ==
  ASSUME RouterInv, NEW p \in Publishers
  PROVE  /\ WaitsFor(p) \subseteq Placed /\ WaitsFor(p) \subseteq Messages
         /\ WaitsFor(p) = {m \in Range(outbox) \cup ({held} \ {NoMessage}) : m.src = p}
  BY PlacedFacts DEF WaitsFor, Waiting

\* A publisher that starts to speak sends its message straight to paho only
\* when nothing of it waits.
LEMMA OrderTalk ==
  ASSUME OrderInv, NEW p \in Publishers, UNCHANGED <<conn, box, topics, tally>>, at[p] \notin Busy,
         (\E m \in Messages : Speaks(p, m)) \/ UNCHANGED <<at, arg>> \/ Rests(p),
         (\E m \in Messages : Speaks(p, m)) /\ at[p] = "idle" => arg[p].no = 0
  PROVE  Recorded' /\ (\A q \in Publishers \ crossed' : Uncrossed(q)') /\ OrderedUnlessCrossed'
<1>1. /\ UNCHANGED <<connected, outbox, held, given, newest, swapped, crossed>>
      /\ \A q \in Publishers : WaitsFor(q)' = WaitsFor(q)
  BY DEF conn, box, tally, WaitsFor, Waiting
<1>2. Recorded' /\ OrderedUnlessCrossed'
  BY <1>1 DEF OrderInv, Recorded, OrderedUnlessCrossed
<1>3. /\ at \in [Publishers -> {"idle", "direct", "put", "full", "again", "returned", "raised"}]
      /\ arg \in [Publishers -> Messages \cup {NoMessage}]
      /\ \A q \in Publishers \ crossed : Uncrossed(q)
      /\ \A x \in Placed : x.no <= arg[x.src].no
      /\ RouterInv
  BY DEF OrderInv, UplinkInv, Numbered, RouterInv, TypeOK, MqttTypeOK
<1>4. ASSUME NEW q \in Publishers \ crossed, q # p PROVE Uncrossed(q)'
  <2>1. at'[q] = at[q]
    BY <1>3, <1>4 DEF Speaks, Rests
  <2> QED  BY <1>1, <1>3, <2>1 DEF Uncrossed
<1>5. ASSUME p \notin crossed PROVE Uncrossed(p)'
  <2>1. CASE UNCHANGED <<at, arg>> \/ Rests(p)
    <3>1. at'[p] = at[p] \/ at'[p] = "idle"
      BY <1>3, <2>1 DEF Rests
    <3> QED  BY <1>1, <1>3, <1>5, <3>1 DEF Uncrossed
  <2>2. CASE \E m \in Messages : Speaks(p, m)
    <3>1. connected => WaitsFor(p) = {}
      <4>1. CASE at[p] = "idle"
        <5>1. \A x \in WaitsFor(p) : x \in Placed /\ x \in Messages /\ x.src = p
          BY <1>3, WaitsFacts DEF WaitsFor
        <5>2. \A x \in WaitsFor(p) : x.no <= 0 /\ x.no \in 1..NumWords
          BY <1>3, <2>2, <4>1, <5>1, MessageFacts
        <5> QED  BY <5>2, BoundsAssumption
      <4>2. CASE at[p] # "idle"
        BY <1>3, <1>5, <4>2 DEF Uncrossed
      <4> QED  BY <4>1, <4>2
    <3>2. \/ at'[p] = "direct" /\ connected
          \/ at'[p] = "put" /\ ~connected
      BY <1>3, <2>2 DEF Speaks
    <3>3. \A x \in WaitsFor(p) : newest[p] < x.no
      BY <1>3, <1>5 DEF Uncrossed
    <3> QED  BY <1>1, <3>1, <3>2, <3>3 DEF Uncrossed
  <2> QED  BY <2>1, <2>2
<1> QED  BY <1>1, <1>2, <1>4, <1>5

\* A message in the hands of its publisher is newer than all paho has of it.
LEMMA OrderPublish ==
  ASSUME OrderInv, NEW p \in Publishers, PublishNext(p)
  PROVE  Recorded' /\ (\A q \in Publishers \ crossed' : Uncrossed(q)') /\ OrderedUnlessCrossed'
<1> DEFINE m == arg[p]
<1>1. /\ at[p] \in Busy /\ UNCHANGED <<conn, held, crossed>> /\ UplinkInv /\ RouterInv
      /\ at \in [Publishers -> {"idle", "direct", "put", "full", "again", "returned", "raised"}]
      /\ newest \in [Publishers -> 0..NumWords] /\ NumWords \in Nat
      /\ \E x \in {"full", "again", "returned", "raised"} : at' = [at EXCEPT ![p] = x]
      /\ \A q \in Publishers \ crossed : Uncrossed(q)
  BY PublishStep, BoundsAssumption DEF OrderInv, UplinkInv, RouterInv, TypeOK, MqttTypeOK
<1>2. /\ m \in Messages /\ m.src = p /\ m.no \in Nat \ {0} /\ m.no \in 1..NumWords
      /\ \A x \in Placed : x.src = p => x.no < m.no
  BY <1>1, BusyNewest, MessageFacts
<1>3. newest[p] < m.no
  <2>1. CASE newest[p] = 0
    BY <1>2, <2>1
  <2>2. CASE [src |-> p, no |-> newest[p]] \in given
    <3>1. [src |-> p, no |-> newest[p]] \in Placed
      BY <1>1, <2>2, PlacedFacts
    <3> QED  BY <1>2, <3>1
  <2> QED  BY <2>1, <2>2 DEF OrderInv, Recorded
<1>4. /\ at'[p] \in {"full", "again", "returned", "raised"} /\ connected' = connected
      /\ \A q \in Publishers \ {p} : at'[q] = at[q]
  BY <1>1 DEF conn
<1>5. CASE Direct(p)
  <2>1. /\ given' = given \cup {m} /\ UNCHANGED <<outbox, held>> /\ at'[p] = "returned"
        /\ newest' = [newest EXCEPT ![p] = m.no] /\ swapped' = swapped
    <3>1. m.no > newest[p] /\ ~(m.no < newest[p])
      BY <1>1, <1>2, <1>3
    <3>2. /\ given' = given \cup {m} /\ UNCHANGED <<outbox, held>> /\ at'[p] = "returned"
          /\ newest' = [newest EXCEPT ![m.src] = IF m.no > newest[m.src] THEN m.no ELSE newest[m.src]]
          /\ swapped' = IF m.no < newest[m.src] THEN swapped \cup {m.src} ELSE swapped
      BY <1>1, <1>5 DEF Direct, Hand, box
    <3> QED  BY <1>2, <3>1, <3>2
  <2>2. [src |-> p, no |-> m.no] = m
    BY <1>2 DEF Messages
  <2>3. Recorded'
    BY <1>1, <2>1, <2>2 DEF OrderInv, Recorded
  <2>4. \A q \in Publishers : WaitsFor(q)' = WaitsFor(q)
    BY <2>1 DEF WaitsFor, Waiting
  <2>5. ASSUME NEW q \in Publishers \ crossed PROVE Uncrossed(q)'
    <3>1. CASE q = p
      <4>1. WaitsFor(p) = {}
        BY <1>1, <1>5, <2>5, <3>1 DEF Uncrossed, Direct
      <4> QED  BY <2>1, <2>4, <3>1, <4>1 DEF Uncrossed, Busy
    <3>2. CASE q # p
      <4>1. newest'[q] = newest[q] /\ at'[q] = at[q]
        BY <1>1, <1>4, <2>1, <3>2
      <4> QED  BY <1>1, <1>4, <2>4, <4>1 DEF Uncrossed
    <3> QED  BY <3>1, <3>2
  <2> QED  BY <1>1, <2>1, <2>3, <2>5 DEF OrderInv, OrderedUnlessCrossed
<1>6. CASE Put(p) \/ MakeRoom(p) \/ PutAgain(p)
  <2>1. UNCHANGED <<given, newest, swapped>> /\ at[p] \in Busy \ {"direct"}
    BY <1>6 DEF Put, MakeRoom, PutAgain, tally, Busy
  <2>2. Recorded' /\ OrderedUnlessCrossed'
    BY <1>1, <2>1 DEF OrderInv, Recorded, OrderedUnlessCrossed
  <2>3. Range(outbox') \subseteq Range(outbox) \cup {m}
    <3>1. \/ outbox' = outbox \/ outbox' = Append(outbox, m)
          \/ outbox # <<>> /\ outbox' = Tail(outbox)
      BY <1>6 DEF Put, MakeRoom, PutAgain
    <3>2. Range(Append(outbox, m)) = Range(outbox) \cup {m}
      BY <1>1, <1>2, PlacedFacts, PutFacts
    <3>3. outbox # <<>> => Range(outbox) = Range(Tail(outbox)) \cup {Head(outbox)}
      BY <1>1, HeadAlone
    <3> QED  BY <3>1, <3>2, <3>3
  <2>4. \A q \in Publishers : /\ q # p => WaitsFor(q)' \subseteq WaitsFor(q)
                              /\ WaitsFor(q)' \subseteq WaitsFor(q) \cup {m}
    BY <1>1, <1>2, <2>3 DEF WaitsFor, Waiting
  <2>5. ASSUME NEW q \in Publishers \ crossed PROVE Uncrossed(q)'
    <3>1. CASE q = p
      <4>1. ~connected' /\ at'[p] # "direct"
        BY <1>1, <1>4, <2>1, <2>5, <3>1 DEF Uncrossed, Busy
      <4>2. \A x \in WaitsFor(p)' : newest'[p] < x.no
        BY <1>1, <1>3, <2>1, <2>4, <2>5, <3>1 DEF Uncrossed
      <4> QED  BY <3>1, <4>1, <4>2 DEF Uncrossed
    <3>2. CASE q # p
      <4>1. at'[q] = at[q] /\ WaitsFor(q)' \subseteq WaitsFor(q) /\ newest'[q] = newest[q]
        BY <1>4, <2>1, <2>4, <3>2
      <4>2. Uncrossed(q)
        BY <1>1, <2>5
      <4>3. /\ at'[q] # "idle" /\ (at'[q] \in Busy \ {"direct"} \/ WaitsFor(q)' # {}) => ~connected'
            /\ at'[q] = "direct" => WaitsFor(q)' = {}
        BY <1>4, <4>1, <4>2 DEF Uncrossed
      <4>4. \A x \in WaitsFor(q)' : newest'[q] < x.no
        BY <4>1, <4>2 DEF Uncrossed
      <4> QED  BY <4>3, <4>4 DEF Uncrossed
    <3> QED  BY <3>1, <3>2
  <2> QED  BY <1>1, <2>2, <2>5
<1> QED  BY <1>5, <1>6 DEF PublishNext

\* The drain thread hands over the oldest message of the backlog.
LEMMA OrderDrain ==
  ASSUME OrderInv, DrainNext
  PROVE  Recorded' /\ (\A q \in Publishers \ crossed' : Uncrossed(q)') /\ OrderedUnlessCrossed'
<1>1. /\ UNCHANGED <<connected, at, arg, crossed>> /\ UplinkInv /\ RouterInv
      /\ newest \in [Publishers -> 0..NumWords] /\ NumWords \in Nat
      /\ \A q \in Publishers \ crossed : Uncrossed(q)
  BY BoundsAssumption
     DEF DrainNext, DrainWake, DrainTake, DrainHand, Hand, conn, tally,
         OrderInv, UplinkInv, RouterInv, TypeOK, MqttTypeOK
<1>2. CASE DrainHand
  <2> DEFINE m == held
             p == held.src
  <2>1. /\ m \in Messages /\ p \in Publishers /\ m.no \in Nat /\ m \in Waiting \ {NoMessage}
        /\ m.no \in 0..NumWords
    BY <1>2, <1>1, HeldAlone, MessageFacts DEF DrainHand, Waiting
  <2>2. /\ given' = given \cup {m} /\ held' = NoMessage /\ outbox' = outbox
        /\ newest' = [newest EXCEPT ![p] = IF m.no > newest[p] THEN m.no ELSE newest[p]]
        /\ swapped' = IF m.no < newest[p] THEN swapped \cup {p} ELSE swapped
    BY <1>2 DEF DrainHand, Hand
  <2>3. [src |-> p, no |-> m.no] = m
    BY <2>1 DEF Messages
  <2>4. /\ newest'[p] \in {m.no, newest[p]}
        /\ \A q \in Publishers \ {p} : newest'[q] = newest[q]
    BY <1>1, <2>1, <2>2
  <2>5. Recorded'
    <3>1. newest'[p] = 0 \/ [src |-> p, no |-> newest'[p]] \in given'
      BY <2>1, <2>2, <2>3, <2>4 DEF OrderInv, Recorded
    <3>2. \A q \in Publishers \ {p} : newest'[q] = 0 \/ [src |-> q, no |-> newest'[q]] \in given'
      BY <2>2, <2>4 DEF OrderInv, Recorded
    <3> QED  BY <3>1, <3>2 DEF Recorded
  <2>6. \A q \in Publishers : /\ WaitsFor(q)' \subseteq WaitsFor(q)
                              /\ \A x \in WaitsFor(q)' : x \in Range(outbox) /\ x.src = q
    BY <2>2 DEF WaitsFor, Waiting
  <2>7. p \notin crossed => newest[p] < m.no
    BY <1>1, <2>1 DEF Uncrossed, WaitsFor
  <2>8. OrderedUnlessCrossed'
    <3>1. p \notin crossed => ~(m.no < newest[p])
      <4>1. newest[p] \in Nat
        BY <1>1, <2>1
      <4> QED  BY <2>1, <2>7, <4>1
    <3>2. swapped' = swapped \/ (p \in crossed /\ swapped' = swapped \cup {p})
      BY <2>2, <3>1
    <3> QED  BY <1>1, <3>2 DEF OrderInv, OrderedUnlessCrossed
  <2>9. ASSUME NEW q \in Publishers \ crossed PROVE Uncrossed(q)'
    <3>1. /\ at[q] # "idle" /\ (at[q] \in Busy \ {"direct"} \/ WaitsFor(q)' # {}) => ~connected
          /\ at[q] = "direct" => WaitsFor(q)' = {}
      BY <1>1, <2>6, <2>9 DEF Uncrossed
    <3>2. ASSUME NEW x \in WaitsFor(q)' PROVE newest'[q] < x.no
      <4>1. x \in WaitsFor(q) /\ x \in Range(outbox) /\ x.src = q /\ newest[q] < x.no
        BY <1>1, <2>6, <2>9, <3>2 DEF Uncrossed
      <4>2. q = p => m.no < x.no
        BY <1>1, <4>1 DEF UplinkInv, HeldFirst
      <4> QED  BY <2>4, <2>9, <4>1, <4>2
    <3> QED  BY <1>1, <3>1, <3>2 DEF Uncrossed
  <2> QED  BY <1>1, <2>5, <2>8, <2>9
<1>3. CASE DrainWake \/ DrainTake
  <2>1. UNCHANGED <<given, newest, swapped>>
    BY <1>3 DEF DrainWake, DrainTake, tally
  <2>2. (Waiting \ {NoMessage})' = Waiting \ {NoMessage}
    <3>1. CASE DrainTake /\ outbox # <<>>
      <4>1. held = NoMessage /\ held' = Head(outbox) /\ outbox' = Tail(outbox)
        BY <1>1, <3>1 DEF DrainTake, RouterInv, TypeOK, MqttTypeOK
      <4>2. Range(outbox) = Range(outbox') \cup {held'}
        BY <1>1, <3>1, <4>1, HeadAlone
      <4> QED  BY <4>1, <4>2 DEF Waiting
    <3>2. CASE DrainWake \/ outbox = <<>>
      <4>1. UNCHANGED <<outbox, held>>
        BY <1>3, <3>2 DEF DrainWake, DrainTake
      <4> QED  BY <4>1 DEF Waiting
    <3> QED  BY <1>3, <3>1, <3>2
  <2>3. \A q \in Publishers : WaitsFor(q)' = WaitsFor(q)
    BY <2>2 DEF WaitsFor
  <2> QED  BY <1>1, <2>1, <2>3 DEF OrderInv, Recorded, Uncrossed, OrderedUnlessCrossed
<1> QED  BY <1>2, <1>3 DEF DrainNext

\* A connection that comes up crosses whoever is in the midst of its calls.
LEMMA OrderConnection ==
  ASSUME OrderInv, DialNext \/ PahoNext \/ Stop
  PROVE  Recorded' /\ (\A q \in Publishers \ crossed' : Uncrossed(q)') /\ OrderedUnlessCrossed'
<1>1. /\ UNCHANGED <<outbox, held, at, arg, given, lost, newest, swapped>>
      /\ \/ UNCHANGED crossed /\ (connected' => connected)
         \/ crossed' = crossed \cup {p \in Publishers : at[p] # "idle"}
  BY ConnectionStep DEF OrderInv, UplinkInv
<1>2. \A q \in Publishers : WaitsFor(q)' = WaitsFor(q)
  BY <1>1 DEF WaitsFor, Waiting
<1>3. Recorded' /\ OrderedUnlessCrossed'
  BY <1>1 DEF OrderInv, Recorded, OrderedUnlessCrossed
<1>4. ASSUME NEW q \in Publishers \ crossed' PROVE Uncrossed(q)'
  <2>1. Uncrossed(q)
    BY <1>1, <1>4 DEF OrderInv
  <2>2. at[q] = "idle" \/ (connected' => connected)
    BY <1>1, <1>4
  <2> QED  BY <1>1, <1>2, <2>1, <2>2 DEF Uncrossed, Busy
<1> QED  BY <1>3, <1>4

\* OrderInv, kept by every step.
THEOREM OrderInvTheorem == Spec => []OrderInv
<1>1. Init => OrderInv
  <2>0. Init => UplinkInv
    BY UplinkInit
  <2> SUFFICES ASSUME Init PROVE OrderInv
    OBVIOUS
  <2>1. /\ Waiting \ {NoMessage} = {} /\ swapped = {}
        /\ \A p \in Publishers : at[p] = "idle" /\ newest[p] = 0
    BY DEF Init, MqttInit, Waiting, Range
  <2> QED  BY <2>0, <2>1 DEF OrderInv, Recorded, Uncrossed, WaitsFor, OrderedUnlessCrossed
<1>2. OrderInv /\ [Next]_vars => OrderInv'
  <2> SUFFICES ASSUME OrderInv, [Next]_vars
               PROVE  /\ Recorded' /\ (\A p \in Publishers \ crossed' : Uncrossed(p)')
                      /\ OrderedUnlessCrossed'
    BY UplinkNext DEF OrderInv
  <2>0. RouterInv
    BY DEF OrderInv, UplinkInv
  <2>1. CASE UNCHANGED vars
    <3>1. /\ UNCHANGED <<connected, at, outbox, held, given, newest, swapped, crossed>>
          /\ \A q \in Publishers : WaitsFor(q)' = WaitsFor(q)
      BY <2>1 DEF vars, mqttVars, conn, box, tally, WaitsFor, Waiting
    <3> QED  BY <3>1 DEF OrderInv, Recorded, Uncrossed, OrderedUnlessCrossed
  <2>2. ASSUME NEW c \in Commands,
               CommandThread(c) \/ \E raw \in Payloads : HandleCommand(c, raw)
        PROVE  /\ Recorded' /\ (\A p \in Publishers \ crossed' : Uncrossed(p)')
               /\ OrderedUnlessCrossed'
    <3>1. /\ UNCHANGED <<conn, box, topics, tally>> /\ at[c] \notin Busy
          /\ (at[c] = "idle" => arg[c].no = 0) /\ c \in Publishers
      BY <2>0, <2>2, CommandStep, PublishersAssumption DEF NoMessage
    <3>2. \E s \in {"refused", "QUEUED", "EXECUTING", "sending", "SUCCESS", "ERROR",
                    "EXCEPTION", "over"} :
              /\ s \in Talking => Speaks(c, Said(c, s))
              /\ s = "sending" => UNCHANGED <<at, arg>>
              /\ s = "refused" => UNCHANGED <<at, arg>>
              /\ s = "over" => Rests(c)
      BY <2>0, <2>2, CommandStep
    <3>3. (\E m \in Messages : Speaks(c, m)) \/ UNCHANGED <<at, arg>> \/ Rests(c)
      BY <3>2, MessageFacts DEF Talking
    <3> QED  BY <3>1, <3>3, OrderTalk
  <2>3. CASE ReportJob \/ EndReports
    <3>1. /\ UNCHANGED <<conn, box, topics, tally>> /\ at[JobReporter] \notin Busy
          /\ JobReporter \in Publishers
      BY <2>0, <2>3, ReportStep, PublishersAssumption
    <3>2. \/ /\ \E m \in Messages : Speaks(JobReporter, m)
             /\ at[JobReporter] = "idle" => arg[JobReporter].no = 0
          \/ Rests(JobReporter)
      BY <2>0, <2>3, ReportStep, MessageFacts
    <3>3. CASE /\ \E m \in Messages : Speaks(JobReporter, m)
               /\ at[JobReporter] = "idle" => arg[JobReporter].no = 0
      BY <3>1, <3>3, OrderTalk
    <3>4. CASE Rests(JobReporter) /\ ~\E m \in Messages : Speaks(JobReporter, m)
      BY <3>1, <3>4, OrderTalk
    <3>5. CASE Rests(JobReporter) /\ \E m \in Messages : Speaks(JobReporter, m)
      <4>1. FALSE
        <5>1. at \in [Publishers -> {"idle", "direct", "put", "full", "again", "returned", "raised"}]
          BY <2>0 DEF RouterInv, TypeOK, MqttTypeOK
        <5>2. at'[JobReporter] = "idle" /\ at'[JobReporter] \in {"direct", "put"}
          BY <3>1, <3>5, <5>1 DEF Speaks, Rests
        <5> QED  BY <5>2
      <4> QED  BY <4>1
    <3> QED  BY <3>2, <3>3, <3>4, <3>5
  <2> QED  BY <2>1, <2>2, <2>3, OrderPublish, OrderDrain, OrderConnection DEF Next, MqttNext
<1> QED  BY <1>1, <1>2, PTL DEF Spec

\* The messages of a publisher reach paho in the order of its calls, unless
\* the connection came up in the midst of them.
THEOREM OrderTheorem == Spec => []OrderedUnlessCrossed
<1>1. OrderInv => OrderedUnlessCrossed
  BY DEF OrderInv
<1> QED  BY <1>1, OrderInvTheorem, PTL

=============================================================================
