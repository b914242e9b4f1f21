------------------------------- MODULE Poller -------------------------------
(***************************************************************************)
(* What muduo::net::Poller promises, for either implementation: it keeps   *)
(* the channels registered with it and the events each one wants, and      *)
(* poll() reports only registered channels.                                *)
(***************************************************************************)
CONSTANTS Channels, Events

VARIABLES interest,       \* the registered channels (its domain) and what they want
          activeChannels  \* what the last poll() reported

vars == <<interest, activeChannels>>

registered == DOMAIN interest

Init == interest = [c \in {} |-> {}] /\ activeChannels = {}

Changed(c, ev) == [x \in registered \cup {c} |-> IF x = c THEN ev ELSE interest[x]]

Update(c) ==
  \E ev \in SUBSET Events : interest' = Changed(c, ev) /\ UNCHANGED activeChannels

Remove(c) ==
  /\ c \in registered /\ interest[c] = {}
  /\ interest' = [x \in registered \ {c} |-> interest[x]]
  /\ UNCHANGED activeChannels

Poll ==
  /\ activeChannels' \in SUBSET registered
  /\ UNCHANGED interest

Next == Poll \/ \E c \in Channels : Update(c) \/ Remove(c)

Spec == Init /\ [][Next]_vars
=============================================================================
