----------------------------- MODULE EPollPoller -----------------------------
(***************************************************************************)
(* muduo::net::EPollPoller: channels_ beside the kernel's epoll set, with  *)
(* index_ saying which of the two a channel is in.                         *)
(***************************************************************************)
EXTENDS Channel

VARIABLE epoll            \* the kernel's set: [ptr, events] by descriptor

vars == <<channelVars, epoll>>

kNew == -1
kAdded == 1
kDeleted == 2

TypeOK ==
  /\ ChannelTypeOK
  /\ index_ \in [Channels -> {kNew, kAdded, kDeleted}]
  /\ DOMAIN epoll \subseteq Fds
  /\ \A fd \in DOMAIN epoll : epoll[fd].ptr \in Channels /\ epoll[fd].events \subseteq Events

Init == ChannelInit /\ epoll = [fd \in {} |-> {}]

\* update(EPOLL_CTL_ADD or EPOLL_CTL_MOD) and update(EPOLL_CTL_DEL).
ctlSet(c, ev) ==
  [fd \in DOMAIN epoll \cup {FdOf[c]} |->
     IF fd = FdOf[c] THEN [ptr |-> c, events |-> ev] ELSE epoll[fd]]

\* Mutant: the descriptor stays in the kernel's set.
ctlDel_Forgotten(c) == epoll

ctlDel(c) == [fd \in DOMAIN epoll \ {FdOf[c]} |-> epoll[fd]]

AddChannel(c) ==
  /\ index_[c] \in {kNew, kDeleted}
  /\ channels_' = IF index_[c] = kNew THEN Mapped(c) ELSE channels_
  /\ index_' = [index_ EXCEPT ![c] = kAdded]
  /\ epoll' = ctlSet(c, events_'[c])

DeleteChannel(c) ==
  /\ index_[c] = kAdded /\ events_'[c] = {}
  /\ epoll' = ctlDel(c)
  /\ index_' = [index_ EXCEPT ![c] = kDeleted]
  /\ UNCHANGED channels_

ModifyChannel(c) ==
  /\ index_[c] = kAdded /\ events_'[c] # {}
  /\ epoll' = ctlSet(c, events_'[c])
  /\ UNCHANGED <<index_, channels_>>

updateChannel(c) ==
  SetEvents(c) /\ (AddChannel(c) \/ DeleteChannel(c) \/ ModifyChannel(c))

\* Mutant: index_ keeps its value.
RemovedIndex_Kept(c) == index_

RemovedIndex(c) == [index_ EXCEPT ![c] = kNew]

removeChannel(c) ==
  /\ remove(c)
  /\ epoll' = IF index_[c] = kAdded THEN ctlDel(c) ELSE epoll
  /\ index_' = RemovedIndex(c)

\* The kernel reports any of its descriptors: hang-ups and errors always, reads and
\* writes if wanted.  fillActiveChannels() takes the channels from the events.
poll ==
  /\ activeChannels' \in SUBSET {epoll[fd].ptr : fd \in DOMAIN epoll}
  /\ UNCHANGED <<live, removed, events_, index_, addedToLoop_, channels_, epoll>>

\* The destructor; ::close() by the owner also takes the descriptor out of the set.
DestructChannel(c) ==
  /\ Destruct(c)
  /\ epoll' = ctlDel(c)

ConstructChannel(c) == Construct(c) /\ UNCHANGED epoll

Next ==
  \/ poll
  \/ \E c \in Channels :
       updateChannel(c) \/ removeChannel(c) \/ ConstructChannel(c) \/ DestructChannel(c)

Spec == Init /\ [][Next]_vars

------------------------------------------------------------------------------
\* What updateChannel() and removeChannel() assert (EPollPoller.cc:137-161, 183-188)
\* holds whenever a client may call them: the map knows exactly the channels whose
\* index_ is not kNew, also when a descriptor is reused.
AssertionsHold ==
  \A c \in live :
    /\ index_[c] = kNew => ~fdKnown(c)
    /\ index_[c] # kNew => hasChannel(c)
    /\ Removable(c) => hasChannel(c) /\ index_[c] \in {kAdded, kDeleted}

\* The kernel's set and the map agree (fillActiveChannels, EPollPoller.cc:107-113):
\* every pointer the kernel can hand back is a live channel that the map has under its
\* own descriptor, with the events the channel wants.
KernelAgrees ==
  /\ \A fd \in DOMAIN epoll :
       /\ fd \in DOMAIN channels_ /\ channels_[fd] = epoll[fd].ptr
       /\ epoll[fd].events = events_[epoll[fd].ptr]
  /\ \A c \in live : index_[c] = kAdded <=> FdOf[c] \in DOMAIN epoll
=============================================================================
