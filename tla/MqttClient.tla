----------------------------- MODULE MqttClient -----------------------------
(***************************************************************************)
(* MQTTClient: publish with its bounded outbox, the drain thread, the      *)
(* connect loop, subscribe, the connection callbacks of paho.              *)
(*                                                                         *)
(* Threads: any number of publishers, the connect loop, the drain thread   *)
(* and the network thread of paho, which runs the callbacks one at a time. *)
(* A queue.Queue operation and a call of paho are one step each; what a    *)
(* thread read of _connected it acts on later.                             *)
(*                                                                         *)
(* External: paho and the broker.  Every publish has QoS 1, so paho keeps  *)
(* what it accepted until it is delivered, offline or not; the broker      *)
(* forgets the subscriptions of a lost session.  MQTTBridge.start          *)
(* subscribes every topic before it starts the client.  Back-off delays    *)
(* are not counted.                                                        *)
(*                                                                         *)
(* "Variant:" marks a changed copy of the definition that follows it, the  *)
(* bug a property is there to catch.                                       *)
(***************************************************************************)
EXTENDS Integers, Sequences, FiniteSets, SequencesExt

CONSTANTS
    Publishers,     \* threads that call publish
    NumWords,       \* messages one of them publishes at most
    Capacity,       \* _OUTBOX_MAXSIZE
    MaxLosses,      \* bound on lost connections
    MaxRefusals     \* bound on failed attempts to connect in a row

ASSUME CapacityAssumption == Capacity \in Nat \ {0}
ASSUME BoundsAssumption   == NumWords \in Nat /\ MaxLosses \in Nat /\ MaxRefusals \in Nat

Messages  == [src : Publishers, no : 1..NumWords]
NoMessage == [src |-> "none", no |-> 0]

VARIABLES
    connected,      \* _connected, the Event
    stopping,       \* _stop_event
    link,           \* external: the session with the broker is up
    tries,          \* connections lost so far; attempts refused in a row
    dial,           \* where _connect_loop stands
    outbox,         \* _outbox
    drain, held,    \* where _drain_loop stands, the message it has taken
    at, arg,        \* where a publisher stands in publish, with which message
    subscribed,     \* _subscriptions has the topics
    listening,      \* external: the broker has them for this session
    \* History: written, never read by a guard.
    given, lost,    \* messages accepted by paho; shed or refused
    newest,         \* the last message of a publisher that paho accepted
    swapped,        \* publishers with a message accepted after a later one
    crossed         \* publishers with the connection set up in their midst

conn   == <<connected, stopping, link, tries, dial>>
box    == <<outbox, drain, held>>
topics == <<subscribed, listening>>
tally  == <<given, lost, newest, swapped, crossed>>
mqttVars == <<conn, box, at, arg, topics, tally>>

MqttInit ==
    /\ connected = FALSE /\ stopping = FALSE /\ link = FALSE
    /\ tries = [lost |-> 0, refused |-> 0] /\ dial = "off"
    /\ outbox = <<>> /\ drain = "off" /\ held = NoMessage
    /\ at = [p \in Publishers |-> "idle"]
    /\ arg = [p \in Publishers |-> NoMessage]
    /\ subscribed = FALSE /\ listening = FALSE
    /\ given = {} /\ lost = {}
    /\ newest = [p \in Publishers |-> 0] /\ swapped = {} /\ crossed = {}

-----------------------------------------------------------------------------
(* publish, in a thread of its caller.                                     *)

\* client.publish(m): paho has the message.
Hand(m) ==
    /\ given' = given \cup {m}
    /\ newest' = [newest EXCEPT ![m.src] = IF m.no > @ THEN m.no ELSE @]
    /\ swapped' = IF m.no < newest[m.src] THEN swapped \cup {m.src} ELSE swapped
    /\ UNCHANGED <<lost, crossed>>

\* The call: which way it goes is decided by what _connected says now.
Publish(p, no) ==
    /\ arg' = [arg EXCEPT ![p] = [src |-> p, no |-> no]]
    /\ at' = [at EXCEPT ![p] = IF connected THEN "direct" ELSE "put"]

Direct(p) ==
    /\ at[p] = "direct"
    /\ at' = [at EXCEPT ![p] = "returned"]
    /\ Hand(arg[p])
    /\ UNCHANGED <<conn, box, arg, topics>>

\* put_nowait; a full outbox is the except clause.
Put(p) ==
    /\ at[p] = "put"
    /\ IF Len(outbox) < Capacity
       THEN /\ outbox' = Append(outbox, arg[p])
            /\ at' = [at EXCEPT ![p] = "returned"]
       ELSE /\ at' = [at EXCEPT ![p] = "full"]
            /\ UNCHANGED outbox
    /\ UNCHANGED <<conn, drain, held, arg, topics, tally>>

\* Variant: the newest message makes room.
MakeRoomNewest(p) ==
    /\ at[p] = "full"
    /\ at' = [at EXCEPT ![p] = "again"]
    /\ IF outbox = <<>> THEN UNCHANGED <<outbox, lost>>
       ELSE outbox' = Front(outbox) /\ lost' = lost \cup {Last(outbox)}
    /\ UNCHANGED <<conn, drain, held, arg, topics, given, newest, swapped, crossed>>

\* get_nowait of the oldest, whether or not the outbox is still full.
MakeRoom(p) ==
    /\ at[p] = "full"
    /\ at' = [at EXCEPT ![p] = "again"]
    /\ IF outbox = <<>> THEN UNCHANGED <<outbox, lost>>
       ELSE outbox' = Tail(outbox) /\ lost' = lost \cup {Head(outbox)}
    /\ UNCHANGED <<conn, drain, held, arg, topics, given, newest, swapped, crossed>>

\* Variant: the caller is told of a full outbox that took its message.
PutAgainAndRaise(p) ==
    /\ at[p] = "again"
    /\ outbox' = Append(outbox, arg[p])
    /\ at' = [at EXCEPT ![p] = IF Len(outbox) < Capacity THEN "returned" ELSE "raised"]
    /\ UNCHANGED <<conn, drain, held, arg, topics, tally>>

\* The second put_nowait has no handler: queue.Full leaves publish.
PutAgain(p) ==
    /\ at[p] = "again"
    /\ IF Len(outbox) < Capacity
       THEN /\ outbox' = Append(outbox, arg[p])
            /\ at' = [at EXCEPT ![p] = "returned"]
            /\ UNCHANGED lost
       ELSE /\ at' = [at EXCEPT ![p] = "raised"]
            /\ lost' = lost \cup {arg[p]}
            /\ UNCHANGED outbox
    /\ UNCHANGED <<conn, drain, held, arg, topics, given, newest, swapped, crossed>>

-----------------------------------------------------------------------------
(* _drain_loop.                                                            *)

\* _stop_event is read by the outer loop only, _connected by neither of the
\* two steps that follow it.
DrainWake ==
    /\ drain = "waiting"
    /\ \/ stopping /\ drain' = "off"
       \/ ~stopping /\ connected /\ drain' = "looking"
    /\ UNCHANGED <<conn, outbox, held, at, arg, topics, tally>>

\* Variant: the last message is taken first.
DrainTakeLast ==
    /\ drain = "looking"
    /\ IF outbox = <<>> THEN drain' = "waiting" /\ UNCHANGED <<outbox, held>>
       ELSE drain' = "holding" /\ held' = Last(outbox) /\ outbox' = Front(outbox)
    /\ UNCHANGED <<conn, at, arg, topics, tally>>

\* empty() and get_nowait(); an outbox emptied in between ends the loop too.
DrainTake ==
    /\ drain = "looking"
    /\ IF outbox = <<>> THEN drain' = "waiting" /\ UNCHANGED <<outbox, held>>
       ELSE drain' = "holding" /\ held' = Head(outbox) /\ outbox' = Tail(outbox)
    /\ UNCHANGED <<conn, at, arg, topics, tally>>

\* Variant: the loop ends with the first message.
DrainHandOne ==
    /\ drain = "holding"
    /\ Hand(held)
    /\ drain' = "off" /\ held' = NoMessage
    /\ UNCHANGED <<conn, outbox, at, arg, topics>>

DrainHand ==
    /\ drain = "holding"
    /\ Hand(held)
    /\ drain' = "looking" /\ held' = NoMessage
    /\ UNCHANGED <<conn, outbox, at, arg, topics>>

-----------------------------------------------------------------------------
(* start, stop and _connect_loop.                                          *)

Start ==
    /\ dial = "off" /\ subscribed
    /\ dial' = "dialling" /\ drain' = "waiting"
    /\ UNCHANGED <<connected, stopping, link, tries, outbox, held, at, arg, topics, tally>>

\* connect() returns and paho's network thread starts, or it raises.
Dial ==
    /\ dial = "dialling"
    /\ \/ stopping /\ dial' = "over" /\ UNCHANGED tries
       \/ ~stopping /\ dial' = "serving" /\ UNCHANGED tries
       \/ /\ ~stopping /\ tries.refused < MaxRefusals
          /\ tries' = [tries EXCEPT !.refused = @ + 1]
          /\ dial' = "backoff"
    /\ UNCHANGED <<connected, stopping, link, box, at, arg, topics, tally>>

\* _stop_event.wait(timeout=backoff), then the loop's condition again.
Redial ==
    /\ dial = "backoff"
    /\ dial' = "dialling"
    /\ UNCHANGED <<connected, stopping, link, tries, box, at, arg, topics, tally>>

\* Both waits of the loop, connected or not; loop_stop ends the callbacks.
EndServing ==
    /\ dial = "serving" /\ stopping
    /\ dial' = "over"
    /\ UNCHANGED <<connected, stopping, link, tries, box, at, arg, topics, tally>>

Stop ==
    /\ ~stopping /\ dial # "off"
    /\ stopping' = TRUE
    /\ UNCHANGED <<connected, link, tries, dial, box, at, arg, topics, tally>>

-----------------------------------------------------------------------------
(* subscribe; the callbacks of paho's network thread.                      *)

\* subscribe of every topic, not connected yet: they are only remembered.
Subscribe ==
    /\ dial = "off" /\ ~subscribed
    /\ subscribed' = TRUE
    /\ listening' = connected
    /\ UNCHANGED <<conn, box, at, arg, tally>>

\* A publisher between its first call and the return of its last.
InMidst(p) == at[p] # "idle"

\* rc = 0: the Event is set and the topics are subscribed (again).
OnConnect ==
    /\ dial = "serving" /\ ~link /\ ~connected /\ ~stopping
    /\ link' = TRUE /\ connected' = TRUE
    /\ listening' = subscribed
    /\ tries' = [tries EXCEPT !.refused = 0]
    /\ crossed' = crossed \cup {p \in Publishers : InMidst(p)}
    /\ UNCHANGED <<stopping, dial, box, at, arg, subscribed, given, lost, newest, swapped>>

\* rc # 0 is logged only; paho goes on trying.
OnConnectRefused ==
    /\ dial = "serving" /\ ~link /\ ~connected
    /\ tries.refused < MaxRefusals
    /\ tries' = [tries EXCEPT !.refused = @ + 1]
    /\ UNCHANGED <<connected, stopping, link, dial, box, at, arg, topics, tally>>

\* External: the session is lost, or stop has called disconnect.
LoseLink ==
    /\ link
    /\ \/ stopping /\ UNCHANGED tries
       \/ tries.lost < MaxLosses /\ tries' = [tries EXCEPT !.lost = @ + 1]
    /\ link' = FALSE /\ listening' = FALSE
    /\ UNCHANGED <<connected, stopping, dial, box, at, arg, subscribed, tally>>

OnDisconnect ==
    /\ connected /\ ~link /\ dial = "serving"
    /\ connected' = FALSE
    /\ UNCHANGED <<stopping, link, tries, dial, box, at, arg, topics, tally>>

PublishNext(p) == Direct(p) \/ Put(p) \/ MakeRoom(p) \/ PutAgain(p)
DrainNext      == DrainWake \/ DrainTake \/ DrainHand
DialNext       == Start \/ Dial \/ Redial \/ EndServing \/ Subscribe
PahoNext       == OnConnect \/ OnConnectRefused \/ LoseLink \/ OnDisconnect
MqttNext       == \/ \E p \in Publishers : PublishNext(p)
                  \/ DrainNext \/ DialNext \/ PahoNext \/ Stop

MqttTypeOK ==
    /\ connected \in BOOLEAN /\ stopping \in BOOLEAN /\ link \in BOOLEAN
    /\ tries \in [lost : 0..MaxLosses, refused : 0..MaxRefusals]
    /\ dial \in {"off", "dialling", "backoff", "serving", "over"}
    /\ outbox \in Seq(Messages) /\ Len(outbox) <= Capacity
    /\ drain \in {"off", "waiting", "looking", "holding"}
    /\ held \in Messages \cup {NoMessage} /\ (held = NoMessage <=> drain # "holding")
    /\ at \in [Publishers -> {"idle", "direct", "put", "full", "again", "returned", "raised"}]
    /\ arg \in [Publishers -> Messages \cup {NoMessage}]
    /\ subscribed \in BOOLEAN /\ listening \in BOOLEAN
    /\ given \subseteq Messages /\ lost \subseteq Messages
    /\ newest \in [Publishers -> 0..NumWords]
    /\ swapped \subseteq Publishers /\ crossed \subseteq Publishers
=============================================================================
