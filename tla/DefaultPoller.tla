---------------------------- MODULE DefaultPoller ----------------------------
(***************************************************************************)
(* Poller::newDefaultPoller(): a loop has the one poller or the other, by  *)
(* an environment variable that does not change while the program runs.    *)
(***************************************************************************)
EXTENDS Channel

VARIABLES epoll,          \* see EPollPoller
          pollfds_        \* see PollPoller

Epoll == INSTANCE EPollPoller
Poll == INSTANCE PollPoller

vars == <<kind, channelVars, epoll, pollfds_>>

newDefaultPoller == kind \in {"epoll", "poll"}

Init == newDefaultPoller /\ Epoll!Init /\ Poll!Init

Next ==
  /\ \/ kind = "epoll" /\ Epoll!Next /\ UNCHANGED pollfds_
     \/ kind = "poll" /\ Poll!Next /\ UNCHANGED epoll
  /\ UNCHANGED kind

Spec == Init /\ [][Next]_vars

------------------------------------------------------------------------------
TypeOK == newDefaultPoller /\ IF kind = "epoll" THEN Epoll!TypeOK ELSE Poll!TypeOK

\* What updateChannel() and removeChannel() assert holds whenever a client may call them, also
\* when a descriptor is reused (EPollPoller.cc:137-161, 183-188; PollPoller.cc:133), and so do the
\* assertions of ~Channel on the map.
PollerAssertionsHold ==
  /\ TypeOK /\ MapIsTruthful
  /\ IF kind = "epoll" THEN Epoll!AssertionsHold ELSE Poll!RemoveAssertionHolds

\* What the kernel is given agrees with the channels.  Every pointer that epoll can hand back is a
\* live channel, known under its descriptor, with the events it wants (EPollPoller.cc:107-113);
\* every channel's index_ leads to its entry of the vector, whatever removals have swapped into its
\* place, and a channel that wants nothing, of descriptor 0 too, is not polled (PollPoller.cc:87-118).
KernelAgrees ==
  IF kind = "epoll" THEN Epoll!KernelAgrees ELSE Poll!VectorAgrees /\ Poll!IdleEntriesIgnored

\* The three views of what is polled agree: the channels' own, the poller's map and the kernel's
\* (EPollPoller.cc:130-216, PollPoller.cc:70-150).
ViewsAgree == PollerAssertionsHold /\ KernelAgrees

\* Either class implements Poller.
P == INSTANCE Poller WITH
       interest <- [c \in {x \in Channels : hasChannel(x)} |-> events_[c]]
ImplementsPoller == P!Spec
=============================================================================
