--------------------------- MODULE CommandService ---------------------------
(***************************************************************************)
(* What the command engine promises its callers, whatever its threads do:  *)
(* a bounded line of accepted commands, carried out one at a time in the   *)
(* order of acceptance, each settled once; a refused command is never      *)
(* carried out.  CommandQueue is shown to implement this.                  *)
(***************************************************************************)
EXTENDS Naturals, Sequences

CONSTANTS Cmds, Capacity, NoCmd

VARIABLES line,      \* the accepted commands not yet begun
          doing,     \* the command being carried out
          outcome    \* "none" until the command is settled

svc == <<line, doing, outcome>>

Init == line = <<>> /\ doing = NoCmd /\ outcome = [c \in Cmds |-> "none"]

Open(c) == outcome[c] = "none" /\ doing # c /\ \A n \in DOMAIN line : line[n] # c

Settle(c, results) == \E r \in results : outcome' = [outcome EXCEPT ![c] = r]

Accept(c) == /\ Open(c) /\ Len(line) < Capacity
             /\ line' = Append(line, c) /\ UNCHANGED <<doing, outcome>>

Refuse(c) == Open(c) /\ Settle(c, {"REJECTED"}) /\ UNCHANGED <<line, doing>>

\* The oldest command is begun, or dropped (shutdown, connection lost).
BeginNext == /\ doing = NoCmd /\ line # <<>>
             /\ doing' = Head(line) /\ line' = Tail(line) /\ UNCHANGED outcome

DropNext == /\ line # <<>> /\ line' = Tail(line)
            /\ Settle(Head(line), {"REJECTED", "FAILED"}) /\ UNCHANGED doing

End == /\ doing # NoCmd /\ doing' = NoCmd
       /\ Settle(doing, {"OK", "FAILED"}) /\ UNCHANGED line

Next == (\E c \in Cmds : Accept(c) \/ Refuse(c)) \/ BeginNext \/ DropNext \/ End

Spec == Init /\ [][Next]_svc

=============================================================================
