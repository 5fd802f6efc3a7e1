------------------------------- MODULE Uplink -------------------------------
(***************************************************************************)
(* What MQTTClient.publish promises its callers: a message goes straight   *)
(* to paho, or waits in a backlog that is handed over oldest first, or is  *)
(* lost, and then either because the backlog was full and it was one of    *)
(* the oldest, or because the caller was told (queue.Full).  No message is *)
(* handed over twice, and none comes back once it is handed over or lost.  *)
(***************************************************************************)
EXTENDS Integers, Sequences

CONSTANTS
    Messages,
    Capacity        \* _OUTBOX_MAXSIZE

VARIABLES
    backlog,        \* Seq(Messages): accepted, not yet given to paho
    given,          \* messages paho has accepted
    lost            \* messages that will not reach paho

channel == <<backlog, given, lost>>

Fresh(m) == m \notin given \cup lost /\ \A i \in DOMAIN backlog : backlog[i] # m

Init == backlog = <<>> /\ given = {} /\ lost = {}

Pass(m) == /\ Fresh(m)
           /\ given' = given \cup {m}
           /\ UNCHANGED <<backlog, lost>>

\* One message more than the outbox holds: the drain thread has taken one.
Keep(m) == /\ Fresh(m) /\ Len(backlog) <= Capacity
           /\ backlog' = Append(backlog, m)
           /\ UNCHANGED <<given, lost>>

Refuse(m) == /\ Fresh(m)
             /\ lost' = lost \cup {m}
             /\ UNCHANGED <<backlog, given>>

Forward == /\ backlog # <<>>
           /\ given' = given \cup {Head(backlog)}
           /\ backlog' = Tail(backlog)
           /\ UNCHANGED lost

\* The oldest, or the one behind the message the drain thread holds.
Shed(i) == /\ i \in DOMAIN backlog
           /\ lost' = lost \cup {backlog[i]}
           /\ backlog' = SubSeq(backlog, 1, i - 1) \o SubSeq(backlog, i + 1, Len(backlog))
           /\ UNCHANGED given

Next == \/ \E m \in Messages : Pass(m) \/ Keep(m) \/ Refuse(m)
        \/ Forward
        \/ \E i \in {1, 2} : Shed(i)

Spec == Init /\ [][Next]_channel
=============================================================================
