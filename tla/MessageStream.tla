---------------------------- MODULE MessageStream ----------------------------
(***************************************************************************)
(* What a codec over a TCP connection promises: the messages that one side *)
(* sends reach the other side's callback once each and in order, up to the *)
(* first one that is refused; after that one none is delivered.            *)
(***************************************************************************)
EXTENDS Naturals, Sequences

CONSTANTS Messages, Refused(_), Skipped(_)  \* messages refused; messages the user asked to leave out

VARIABLES sent, handled, delivered

vars == <<sent, handled, delivered>>

Init == sent = <<>> /\ handled = 0 /\ delivered = <<>>

Send(m) == sent' = Append(sent, m) /\ UNCHANGED <<handled, delivered>>

Front == sent[handled + 1]

Handle ==
  /\ handled < Len(sent) /\ ~Refused(Front)
  /\ handled' = handled + 1
  /\ delivered' = IF Skipped(Front) THEN delivered ELSE Append(delivered, handled')
  /\ UNCHANGED sent

Next == Handle \/ \E m \in Messages : Send(m)

Spec == Init /\ [][Next]_vars /\ WF_vars(Handle)
=============================================================================
