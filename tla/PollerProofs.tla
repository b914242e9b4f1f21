---------------------------- MODULE PollerProofs ----------------------------
(***************************************************************************)
(* For any channels and any reuse of descriptors, with either poller, the  *)
(* assertions of the poller and of ~Channel hold, what the kernel is given *)
(* agrees with the channels, and the poller implements Poller.             *)
(*                                                                         *)
(* ChannelInv is what the two pollers have in common: a descriptor has one *)
(* live channel, and addedToLoop_ tells exactly the channels of the map.   *)
(* Every step of either is one of the steps of ChannelStep, which keeps    *)
(* ChannelInv and is a step of Poller.  EPollInv and PollInv add what      *)
(* index_ means to each.                                                   *)
(***************************************************************************)
EXTENDS DefaultPoller, Sequences, FiniteSetTheorems, TLAPS

USE ChannelAssumption

Registered == {c \in Channels : hasChannel(c)}

ChannelTypes ==
  /\ live \subseteq Channels /\ removed \subseteq live
  /\ events_ \in [Channels -> SUBSET Events]
  /\ addedToLoop_ \in [Channels -> BOOLEAN]
  /\ activeChannels \subseteq Channels

OneChannelPerFd == \A c, d \in live : FdOf[c] = FdOf[d] => c = d

MapIsOwn == \A fd \in DOMAIN channels_ : channels_[fd] \in live /\ FdOf[channels_[fd]] = fd

Marks ==
  /\ \A c \in Channels : addedToLoop_[c] <=> hasChannel(c)
  /\ \A c \in removed : ~addedToLoop_[c]

ChannelInv == ChannelTypes /\ OneChannelPerFd /\ MapIsOwn /\ Marks

\* What the operations of both pollers do to the channels and the map.
Updates(c) ==
  SetEvents(c) /\ (channels_' = Mapped(c) \/ (channels_' = channels_ /\ hasChannel(c)))

Polls ==
  /\ activeChannels' \in SUBSET Registered
  /\ UNCHANGED <<live, removed, events_, addedToLoop_, channels_>>

ChannelStep ==
  \/ Polls
  \/ \E c \in Channels : Updates(c) \/ remove(c) \/ Construct(c) \/ Destruct(c)

------------------------------------------------------------------------------
(* What the pollers share. *)

\* The map has something under the descriptor of a live channel only if it is that channel.
LEMMA KnownIsOwn ==
  ASSUME ChannelInv, NEW c \in live, FdOf[c] \in DOMAIN channels_
  PROVE  hasChannel(c)
BY Zenon DEF ChannelInv, OneChannelPerFd, MapIsOwn, hasChannel

\* After updateChannel() the map has its channel, and of the others what it had.
LEMMA UpdatedMap ==
  ASSUME ChannelInv, NEW c \in Channels, Updates(c)
  PROVE  /\ c \in live
         /\ DOMAIN channels_' = DOMAIN channels_ \union {FdOf[c]} /\ channels_'[FdOf[c]] = c
         /\ \A fd \in DOMAIN channels_ \ {FdOf[c]} : channels_'[fd] = channels_[fd]
         /\ \A d \in Channels : hasChannel(d)' <=> hasChannel(d) \/ d = c
<1>1. c \in live
  BY Zenon DEF Updates, SetEvents
<1>2. /\ DOMAIN channels_' = DOMAIN channels_ \union {FdOf[c]} /\ channels_'[FdOf[c]] = c
      /\ \A fd \in DOMAIN channels_ \ {FdOf[c]} : channels_'[fd] = channels_[fd]
  BY Zenon DEF Updates, Mapped, hasChannel
<1>3. ASSUME NEW d \in Channels PROVE hasChannel(d)' <=> hasChannel(d) \/ d = c
  <2>1. CASE FdOf[d] = FdOf[c]
    <3>1. hasChannel(d) => d = c
      BY <1>1, <2>1, Zenon DEF ChannelInv, MapIsOwn, OneChannelPerFd, hasChannel
    <3> QED
      BY <1>2, <2>1, <3>1, Zenon DEF hasChannel
  <2>2. CASE FdOf[d] # FdOf[c]
    BY <1>2, <2>2, Zenon DEF hasChannel
  <2> QED
    BY <2>1, <2>2, Zenon
<1> QED
  BY <1>1, <1>2, <1>3, Zenon

\* After removeChannel() the map has of the other channels what it had.
LEMMA RemovedMap ==
  ASSUME ChannelInv, NEW c \in Channels, remove(c)
  PROVE  /\ c \in live /\ hasChannel(c)
         /\ DOMAIN channels_' = DOMAIN channels_ \ {FdOf[c]}
         /\ \A fd \in DOMAIN channels_' : channels_'[fd] = channels_[fd]
         /\ \A d \in Channels : hasChannel(d)' <=> hasChannel(d) /\ d # c
<1>1. c \in live /\ hasChannel(c)
  BY Zenon DEF ChannelInv, Marks, remove, Removable
<1>2. DOMAIN channels_' = DOMAIN channels_ \ {FdOf[c]} /\ \A fd \in DOMAIN channels_' : channels_'[fd] = channels_[fd]
  BY Zenon DEF remove, Erased
<1>3. ASSUME NEW d \in Channels PROVE hasChannel(d)' <=> hasChannel(d) /\ d # c
  <2>1. CASE FdOf[d] = FdOf[c]
    BY <1>1, <1>2, <2>1, Zenon DEF hasChannel
  <2>2. CASE FdOf[d] # FdOf[c]
    BY <1>2, <2>2, Zenon DEF hasChannel
  <2> QED
    BY <2>1, <2>2, Zenon
<1> QED
  BY <1>1, <1>2, <1>3, Zenon

\* What enabling and disabling make of the wanted events.
LEMMA WantedIsSet ==
  ASSUME ChannelInv, NEW c \in Channels, SetEvents(c)
  PROVE  \E e \in Wanted(events_[c]) : e \in SUBSET Events /\ events_' = [events_ EXCEPT ![c] = e]
<1>1. events_[c] \in SUBSET Events
  BY Zenon DEF ChannelInv, ChannelTypes
<1>2. PICK e \in Wanted(events_[c]) : events_' = [events_ EXCEPT ![c] = e]
  BY Zenon DEF SetEvents
<1>3. e \in SUBSET Events
  BY <1>1, <1>2, Zenon DEF Wanted, Events
<1> QED
  BY <1>2, <1>3, Zenon

\* The steps of the pollers keep what they have in common.
LEMMA ChannelInvNext ==
  ASSUME ChannelInv, ChannelStep
  PROVE  ChannelInv'
<1>1. CASE Polls
  <2>1. Registered \subseteq Channels
    BY Zenon DEF Registered
  <2> QED
    BY <1>1, <2>1, Zenon DEF Polls, ChannelInv, ChannelTypes, OneChannelPerFd, MapIsOwn, Marks, hasChannel
<1>2. ASSUME NEW c \in Channels, Updates(c) PROVE ChannelInv'
  <2>1. /\ c \in live \ removed /\ live' = live /\ removed' = removed /\ activeChannels' = activeChannels
        /\ addedToLoop_' = [addedToLoop_ EXCEPT ![c] = TRUE]
    BY <1>2, Zenon DEF Updates, SetEvents
  <2>2. \E e \in SUBSET Events : events_' = [events_ EXCEPT ![c] = e]
    BY <1>2, WantedIsSet, Zenon DEF Updates
  <2>3. ChannelTypes'
    BY <2>1, <2>2, Zenon DEF ChannelInv, ChannelTypes
  <2>4. OneChannelPerFd'
    BY <2>1, Zenon DEF ChannelInv, OneChannelPerFd
  <2>5. MapIsOwn'
    <3>1. /\ DOMAIN channels_' = DOMAIN channels_ \union {FdOf[c]} /\ channels_'[FdOf[c]] = c
          /\ \A fd \in DOMAIN channels_ \ {FdOf[c]} : channels_'[fd] = channels_[fd]
      BY <1>2, UpdatedMap, Zenon
    <3> QED
      BY <2>1, <3>1, Zenon DEF ChannelInv, MapIsOwn
  <2>6. \A d \in Channels : hasChannel(d)' <=> hasChannel(d) \/ d = c
    BY <1>2, UpdatedMap, Zenon
  <2>7. Marks'
    BY <2>1, <2>6, Zenon DEF ChannelInv, ChannelTypes, Marks
  <2> QED
    BY <2>3, <2>4, <2>5, <2>7, Zenon DEF ChannelInv
<1>3. ASSUME NEW c \in Channels, remove(c) PROVE ChannelInv'
  <2>1. /\ c \in live /\ live' = live /\ removed' = removed \union {c} /\ activeChannels' = activeChannels
        /\ events_' = events_ /\ addedToLoop_' = [addedToLoop_ EXCEPT ![c] = FALSE]
    BY <1>3, Zenon DEF remove, Removable
  <2>2. ChannelTypes' /\ OneChannelPerFd'
    BY <2>1, Zenon DEF ChannelInv, ChannelTypes, OneChannelPerFd
  <2>3. MapIsOwn'
    BY <1>3, <2>1, RemovedMap, Zenon DEF ChannelInv, MapIsOwn
  <2>4. \A d \in Channels : hasChannel(d)' <=> hasChannel(d) /\ d # c
    BY <1>3, RemovedMap, Zenon
  <2>5. Marks'
    BY <2>1, <2>4, Zenon DEF ChannelInv, ChannelTypes, Marks
  <2> QED
    BY <2>2, <2>3, <2>5, Zenon DEF ChannelInv
<1>4. ASSUME NEW c \in Channels, Construct(c) PROVE ChannelInv'
  <2>1. /\ c \notin live /\ live' = live \union {c} /\ \A d \in live : FdOf[d] # FdOf[c]
        /\ UNCHANGED <<removed, events_, addedToLoop_, channels_, activeChannels>>
    BY <1>4, Zenon DEF Construct
  <2> QED
    BY <2>1, Zenon DEF ChannelInv, ChannelTypes, OneChannelPerFd, MapIsOwn, Marks, hasChannel
<1>5. ASSUME NEW c \in Channels, Destruct(c) PROVE ChannelInv'
  <2>1. /\ c \in live /\ ~addedToLoop_[c] /\ live' = live \ {c} /\ removed' = removed \ {c}
        /\ events_' = [events_ EXCEPT ![c] = {}]
        /\ UNCHANGED <<addedToLoop_, channels_, activeChannels>>
    BY <1>5, Zenon DEF Destruct
  \* The map does not have it: ~Channel asserts as much.
  <2>2. \A fd \in DOMAIN channels_ : channels_[fd] # c
    BY <2>1, Zenon DEF ChannelInv, MapIsOwn, Marks, hasChannel
  <2> QED
    BY <2>1, <2>2, Zenon DEF ChannelInv, ChannelTypes, OneChannelPerFd, MapIsOwn, Marks, hasChannel
<1> QED
  BY <1>1, <1>2, <1>3, <1>4, <1>5, Zenon DEF ChannelStep

\* They are steps of the abstract poller, or change nothing it knows of.
LEMMA ChannelStepIsPollerStep ==
  ASSUME ChannelInv, ChannelStep
  PROVE  [P!Next]_(P!vars)
<1>1. CASE Polls
  <2>1. Registered' = Registered
    BY <1>1, Zenon DEF Polls, Registered, hasChannel
  <2>2. P!Poll
    BY <1>1, <2>1, Zenon DEF Polls, P!Poll, P!registered, Registered
  <2> QED
    BY <2>2, Zenon DEF P!Next
<1>2. ASSUME NEW c \in Channels, Updates(c) PROVE P!Update(c)
  <2>1. activeChannels' = activeChannels
    BY <1>2, Zenon DEF Updates, SetEvents
  <2>2. PICK e \in SUBSET Events : events_' = [events_ EXCEPT ![c] = e]
    BY <1>2, WantedIsSet, Zenon DEF Updates
  <2>3. Registered' = Registered \union {c}
    BY <1>2, UpdatedMap, ZenonT(30) DEF Registered
  <2>4. [d \in Registered |-> events_[d]]' = P!Changed(c, e)
    BY <2>2, <2>3, Zenon DEF P!Changed, P!registered, ChannelInv, ChannelTypes, Registered
  <2> QED
    BY <2>1, <2>4, Zenon DEF P!Update, Registered
<1>3. ASSUME NEW c \in Channels, remove(c) PROVE P!Remove(c)
  <2>1. events_[c] = {} /\ events_' = events_ /\ activeChannels' = activeChannels
    BY <1>3, Zenon DEF remove, Removable, isNoneEvent
  <2>2. c \in Registered /\ Registered' = Registered \ {c}
    BY <1>3, RemovedMap, Zenon DEF Registered
  <2> QED
    BY <2>1, <2>2, Zenon DEF P!Remove, P!registered, Registered
<1>4. ASSUME NEW c \in Channels, Construct(c) \/ Destruct(c) PROVE UNCHANGED P!vars
  <2>1. channels_' = channels_ /\ activeChannels' = activeChannels
    BY <1>4, Zenon DEF Construct, Destruct
  <2>2. Registered' = Registered
    BY <2>1, Zenon DEF Registered, hasChannel
  <2>3. \A d \in Registered : events_'[d] = events_[d]
    <3>1. CASE Construct(c)
      BY <3>1, Zenon DEF Construct
    <3>2. CASE Destruct(c)
      <4>1. c \notin Registered /\ events_' = [events_ EXCEPT ![c] = {}]
        BY <3>2, Zenon DEF Destruct, ChannelInv, Marks, Registered
      <4> QED
        BY <4>1, Zenon DEF ChannelInv, ChannelTypes, Registered
    <3> QED
      BY <1>4, <3>1, <3>2, Zenon
  <2> QED
    BY <2>1, <2>2, <2>3, Zenon DEF P!vars, Registered
<1> QED
  BY <1>1, <1>2, <1>3, <1>4, Zenon DEF ChannelStep, P!Next
------------------------------------------------------------------------------
(* EPollPoller: index_ says whether the map and the kernel's set have a channel. *)

EPollInv ==
  /\ ChannelInv
  /\ index_ \in [Channels -> {Epoll!kNew, Epoll!kAdded, Epoll!kDeleted}]
  /\ \A c \in Channels : addedToLoop_[c] <=> index_[c] # Epoll!kNew
  /\ Epoll!KernelAgrees

\* A poller without channels satisfies the invariant.
LEMMA EPollInvInit == Epoll!Init => EPollInv
<1> SUFFICES ASSUME Epoll!Init PROVE EPollInv
  BY Zenon
<1> USE DEF Epoll!Init, Epoll!ChannelInit
<1>1. ChannelTypes /\ OneChannelPerFd /\ MapIsOwn
  BY Zenon DEF ChannelTypes, OneChannelPerFd, MapIsOwn
<1>2. Marks
  BY Zenon DEF Marks, hasChannel
<1>3. Epoll!KernelAgrees
  BY Zenon DEF Epoll!KernelAgrees
<1>4. index_ \in [Channels -> {Epoll!kNew, Epoll!kAdded, Epoll!kDeleted}] /\ \A c \in Channels : addedToLoop_[c] <=> index_[c] # Epoll!kNew
  BY Zenon DEF Epoll!kNew
<1> QED
  BY <1>1, <1>2, <1>3, <1>4, Zenon DEF EPollInv, ChannelInv

\* What updateChannel() does with the map, index_ and the kernel's set, whichever way it takes.
LEMMA EPollUpdated ==
  ASSUME EPollInv, NEW c \in Channels, Epoll!updateChannel(c)
  PROVE  /\ Updates(c)
         /\ \E i \in {Epoll!kAdded, Epoll!kDeleted} :
              /\ index_' = [index_ EXCEPT ![c] = i]
              /\ epoll' = IF i = Epoll!kAdded THEN Epoll!ctlSet(c, events_'[c]) ELSE Epoll!ctlDel(c)
<1>1. SetEvents(c)
  BY Zenon DEF Epoll!updateChannel, Epoll!SetEvents, SetEvents, Epoll!Wanted, Wanted, Epoll!Events, Events
<1>2. index_[c] # Epoll!kNew => hasChannel(c)
  BY Zenon DEF EPollInv, ChannelInv, Marks
<1>3. CASE Epoll!AddChannel(c)
  <2>1. channels_' = Mapped(c) \/ (channels_' = channels_ /\ hasChannel(c))
    BY <1>2, <1>3, Zenon DEF Epoll!AddChannel, Epoll!Mapped, Mapped
  <2>2. index_' = [index_ EXCEPT ![c] = Epoll!kAdded] /\ epoll' = Epoll!ctlSet(c, events_'[c])
    BY <1>3, Zenon DEF Epoll!AddChannel
  <2> QED
    BY <1>1, <2>1, <2>2, Zenon DEF Updates
<1>4. CASE Epoll!DeleteChannel(c)
  <2>1. channels_' = channels_ /\ hasChannel(c)
    BY <1>2, <1>4 DEF Epoll!DeleteChannel, Epoll!kNew, Epoll!kAdded
  <2>2. index_' = [index_ EXCEPT ![c] = Epoll!kDeleted] /\ epoll' = Epoll!ctlDel(c) /\ Epoll!kDeleted # Epoll!kAdded
    BY <1>4 DEF Epoll!DeleteChannel, Epoll!kAdded, Epoll!kDeleted
  <2> QED
    BY <1>1, <2>1, <2>2, Zenon DEF Updates
<1>5. CASE Epoll!ModifyChannel(c)
  <2>1. channels_' = channels_ /\ hasChannel(c)
    BY <1>2, <1>5 DEF Epoll!ModifyChannel, Epoll!kNew, Epoll!kAdded
  <2>2. index_' = [index_ EXCEPT ![c] = Epoll!kAdded] /\ epoll' = Epoll!ctlSet(c, events_'[c])
    BY <1>5, Zenon DEF Epoll!ModifyChannel, EPollInv
  <2> QED
    BY <1>1, <2>1, <2>2, Zenon DEF Updates
<1> QED
  BY <1>3, <1>4, <1>5, Zenon DEF Epoll!updateChannel

\* Channel::update(), with epoll_ctl(2) as updateChannel() calls it.
LEMMA EPollUpdateKeepsInv ==
  ASSUME EPollInv, ChannelInv', NEW c \in Channels, Epoll!updateChannel(c)
  PROVE  EPollInv'
<1>1. /\ live' = live /\ addedToLoop_' = [addedToLoop_ EXCEPT ![c] = TRUE]
      /\ \E e \in SUBSET Events : events_' = [events_ EXCEPT ![c] = e]
  BY EPollUpdated, WantedIsSet, Zenon DEF Updates, SetEvents, EPollInv
<1>2. PICK e \in SUBSET Events : events_' = [events_ EXCEPT ![c] = e]
  BY <1>1, Zenon
<1>3. PICK i \in {Epoll!kAdded, Epoll!kDeleted} :
        index_' = [index_ EXCEPT ![c] = i] /\ epoll' = IF i = Epoll!kAdded THEN Epoll!ctlSet(c, events_'[c]) ELSE Epoll!ctlDel(c)
  BY EPollUpdated, Zenon
\* The map in terms of its entries: that of c, and the others.
<1>4. /\ c \in live
      /\ DOMAIN channels_' = DOMAIN channels_ \union {FdOf[c]} /\ channels_'[FdOf[c]] = c
      /\ \A fd \in DOMAIN channels_ \ {FdOf[c]} : channels_'[fd] = channels_[fd]
  BY EPollUpdated, UpdatedMap, Zenon DEF EPollInv
<1>5. /\ index_' \in [Channels -> {Epoll!kNew, Epoll!kAdded, Epoll!kDeleted}]
      /\ \A d \in Channels : addedToLoop_'[d] <=> index_'[d] # Epoll!kNew
  BY <1>1, <1>3 DEF EPollInv, ChannelInv, ChannelTypes, Epoll!kNew, Epoll!kAdded, Epoll!kDeleted
\* So is the kernel's set.
<1>6. /\ DOMAIN epoll' = IF i = Epoll!kAdded THEN DOMAIN epoll \union {FdOf[c]} ELSE DOMAIN epoll \ {FdOf[c]}
      /\ i = Epoll!kAdded => epoll'[FdOf[c]] = [ptr |-> c, events |-> events_'[c]]
      /\ \A fd \in DOMAIN epoll \ {FdOf[c]} : epoll'[fd] = epoll[fd]
  <2>1. CASE i = Epoll!kAdded
    BY <1>3, <2>1, Zenon DEF Epoll!ctlSet
  <2>2. CASE i # Epoll!kAdded
    BY <1>3, <2>2, Zenon DEF Epoll!ctlDel
  <2> QED
    BY <2>1, <2>2, Zenon
<1>7. ASSUME NEW fd \in DOMAIN epoll'
      PROVE  fd \in DOMAIN channels_' /\ channels_'[fd] = epoll'[fd].ptr /\ epoll'[fd].events = events_'[epoll'[fd].ptr]
  <2>1. CASE fd = FdOf[c]
    BY <1>4, <1>6, <1>7, <2>1
  <2>2. CASE fd # FdOf[c]
    <3>1. fd \in DOMAIN epoll /\ epoll'[fd] = epoll[fd]
      BY <1>6, <1>7, <2>2, Zenon
    <3>2. fd \in DOMAIN channels_ /\ channels_[fd] = epoll[fd].ptr /\ epoll[fd].events = events_[epoll[fd].ptr]
      BY <3>1, Zenon DEF EPollInv, Epoll!KernelAgrees
    <3>3. epoll[fd].ptr \in Channels /\ epoll[fd].ptr # c
      BY <2>2, <3>2 DEF EPollInv, ChannelInv, MapIsOwn, ChannelTypes
    <3> QED
      BY <1>2, <1>4, <2>2, <3>1, <3>2, <3>3, Zenon DEF EPollInv, ChannelInv, ChannelTypes
  <2> QED
    BY <2>1, <2>2, Zenon
<1>8. ASSUME NEW d \in live' PROVE index_'[d] = Epoll!kAdded <=> FdOf[d] \in DOMAIN epoll'
  <2>1. CASE d = c
    BY <1>3, <1>6, <2>1, Zenon DEF EPollInv
  <2>2. CASE d # c
    <3>1. d \in live /\ d \in Channels /\ FdOf[d] # FdOf[c]
      BY <1>1, <1>4, <2>2, Zenon DEF EPollInv, ChannelInv, ChannelTypes, OneChannelPerFd
    <3>2. index_'[d] = index_[d] /\ (FdOf[d] \in DOMAIN epoll' <=> FdOf[d] \in DOMAIN epoll)
      BY <1>3, <1>6, <2>2, <3>1, Zenon DEF EPollInv
    <3> QED
      BY <3>1, <3>2, Zenon DEF EPollInv, Epoll!KernelAgrees
  <2> QED
    BY <2>1, <2>2, Zenon
<1>9. Epoll!KernelAgrees'
  BY <1>7, <1>8, Zenon DEF Epoll!KernelAgrees
<1> QED
  BY <1>5, <1>9, Zenon DEF EPollInv

\* Channel::remove(), with removeChannel().
LEMMA EPollRemoveKeepsInv ==
  ASSUME EPollInv, ChannelInv', NEW c \in Channels, Epoll!removeChannel(c)
  PROVE  remove(c) /\ EPollInv'
<1>1. remove(c)
  BY Zenon DEF Epoll!removeChannel, Epoll!remove, remove, Epoll!Removable, Removable, Epoll!isNoneEvent,
         isNoneEvent, Epoll!Erased, Erased
<1>2. /\ c \in live /\ live' = live /\ events_' = events_
      /\ addedToLoop_' = [addedToLoop_ EXCEPT ![c] = FALSE] /\ index_' = [index_ EXCEPT ![c] = Epoll!kNew]
  BY <1>1, Zenon DEF Epoll!removeChannel, remove, Removable, Epoll!RemovedIndex
<1>3. DOMAIN channels_' = DOMAIN channels_ \ {FdOf[c]} /\ \A fd \in DOMAIN channels_' : channels_'[fd] = channels_[fd]
  BY <1>1, RemovedMap, Zenon DEF EPollInv
\* If the descriptor was not in the kernel's set, taking it out changes nothing.
<1>4. DOMAIN epoll' = DOMAIN epoll \ {FdOf[c]} /\ \A fd \in DOMAIN epoll' : epoll'[fd] = epoll[fd]
  <2>1. CASE index_[c] = Epoll!kAdded
    BY <2>1, Zenon DEF Epoll!removeChannel, Epoll!ctlDel
  <2>2. CASE index_[c] # Epoll!kAdded
    <3>1. epoll' = epoll /\ FdOf[c] \notin DOMAIN epoll
      BY <1>2, <2>2, Zenon DEF Epoll!removeChannel, EPollInv, Epoll!KernelAgrees
    <3> QED
      BY <3>1, Zenon
  <2> QED
    BY <2>1, <2>2, Zenon
<1>5. /\ index_' \in [Channels -> {Epoll!kNew, Epoll!kAdded, Epoll!kDeleted}]
      /\ \A d \in Channels : addedToLoop_'[d] <=> index_'[d] # Epoll!kNew
  BY <1>2, Zenon DEF EPollInv, ChannelInv, ChannelTypes
<1>6. ASSUME NEW fd \in DOMAIN epoll'
      PROVE  fd \in DOMAIN channels_' /\ channels_'[fd] = epoll'[fd].ptr /\ epoll'[fd].events = events_'[epoll'[fd].ptr]
  BY <1>2, <1>3, <1>4, <1>6, Zenon DEF EPollInv, Epoll!KernelAgrees
<1>7. ASSUME NEW d \in live' PROVE index_'[d] = Epoll!kAdded <=> FdOf[d] \in DOMAIN epoll'
  BY <1>2, <1>4, <1>7 DEF EPollInv, ChannelInv, ChannelTypes, OneChannelPerFd, Epoll!KernelAgrees, Epoll!kNew, Epoll!kAdded
<1>8. Epoll!KernelAgrees'
  BY <1>6, <1>7, Zenon DEF Epoll!KernelAgrees
<1> QED
  BY <1>1, <1>5, <1>8, Zenon DEF EPollInv

\* A channel is constructed for a descriptor nobody has.
LEMMA EPollLifeKeepsInv ==
  ASSUME EPollInv, ChannelInv', NEW c \in Channels, Construct(c), epoll' = epoll
  PROVE  EPollInv'
<1>1. /\ c \notin live /\ live' = live \union {c} /\ \A d \in live : FdOf[d] # FdOf[c]
      /\ UNCHANGED <<events_, index_, addedToLoop_, channels_, epoll>>
  BY Zenon DEF Construct
\* The map and the kernel's set know nothing of its descriptor.
<1>2. FdOf[c] \notin DOMAIN channels_
  BY <1>1, Zenon DEF EPollInv, ChannelInv, MapIsOwn
<1>3. FdOf[c] \notin DOMAIN epoll /\ index_[c] = Epoll!kNew
  BY <1>2, Zenon DEF EPollInv, ChannelInv, Marks, hasChannel, Epoll!KernelAgrees
<1>4. Epoll!KernelAgrees'
  BY <1>1, <1>3 DEF EPollInv, Epoll!KernelAgrees, Epoll!kNew, Epoll!kAdded
<1> QED
  BY <1>1, <1>4, Zenon DEF EPollInv

\* ~Channel, with the close of the descriptor, which the kernel's set has forgotten already.
LEMMA EPollDestructKeepsInv ==
  ASSUME EPollInv, ChannelInv', NEW c \in Channels, Destruct(c), epoll' = Epoll!ctlDel(c)
  PROVE  EPollInv'
<1>1. /\ c \in live /\ ~addedToLoop_[c] /\ live' = live \ {c}
      /\ events_' = [events_ EXCEPT ![c] = {}] /\ index_' = [index_ EXCEPT ![c] = -1]
      /\ UNCHANGED <<addedToLoop_, channels_>>
  BY Zenon DEF Destruct
<1>2. index_[c] = Epoll!kNew /\ FdOf[c] \notin DOMAIN epoll
  BY <1>1 DEF EPollInv, Epoll!KernelAgrees, Epoll!kNew, Epoll!kAdded
<1>3. DOMAIN epoll' = DOMAIN epoll /\ \A fd \in DOMAIN epoll : epoll'[fd] = epoll[fd]
  BY <1>2, Zenon DEF Epoll!ctlDel
<1>4. index_' = index_
  BY <1>1, <1>2, Zenon DEF EPollInv, Epoll!kNew
<1>5. \A fd \in DOMAIN channels_ : channels_[fd] # c
  BY <1>1, Zenon DEF EPollInv, ChannelInv, MapIsOwn, Marks, hasChannel
<1>6. ASSUME NEW fd \in DOMAIN epoll'
      PROVE  fd \in DOMAIN channels_' /\ channels_'[fd] = epoll'[fd].ptr /\ epoll'[fd].events = events_'[epoll'[fd].ptr]
  <2>1. fd \in DOMAIN epoll /\ epoll'[fd] = epoll[fd]
    BY <1>3, <1>6, Zenon
  <2>2. fd \in DOMAIN channels_ /\ channels_[fd] = epoll[fd].ptr /\ epoll[fd].events = events_[epoll[fd].ptr]
    BY <2>1, Zenon DEF EPollInv, Epoll!KernelAgrees
  <2>3. epoll[fd].ptr # c /\ epoll[fd].ptr \in Channels
    BY <1>5, <2>2, Zenon DEF EPollInv, ChannelInv, MapIsOwn, ChannelTypes
  <2> QED
    BY <1>1, <2>1, <2>2, <2>3, Zenon DEF EPollInv, ChannelInv, ChannelTypes
<1>7. Epoll!KernelAgrees'
  BY <1>1, <1>3, <1>4, <1>6 DEF EPollInv, Epoll!KernelAgrees
<1> QED
  BY <1>1, <1>4, <1>7, Zenon DEF EPollInv

\* Every step of EPollPoller is one of those both pollers take, and keeps the invariant.
LEMMA EPollNext ==
  ASSUME EPollInv, Epoll!Next
  PROVE  ChannelStep /\ EPollInv'
<1> ChannelInv
  BY Zenon DEF EPollInv
<1>1. CASE Epoll!poll
  <2>1. UNCHANGED <<live, removed, events_, index_, addedToLoop_, channels_, epoll>>
    BY <1>1, Zenon DEF Epoll!poll
  <2>2. \A fd \in DOMAIN epoll : epoll[fd].ptr \in Registered
    BY DEF EPollInv, ChannelInv, ChannelTypes, MapIsOwn, Epoll!KernelAgrees, Registered, hasChannel
  <2>3. Polls
    BY <1>1, <2>1, <2>2, Zenon DEF Epoll!poll, Polls
  <2>4. ChannelInv'
    BY <2>3, ChannelInvNext, Zenon DEF ChannelStep
  <2> QED
    BY <2>1, <2>3, <2>4, Zenon DEF ChannelStep, EPollInv, Epoll!KernelAgrees
<1>2. ASSUME NEW c \in Channels, Epoll!updateChannel(c) PROVE ChannelStep /\ EPollInv'
  <2>1. ChannelStep
    BY <1>2, EPollUpdated, Zenon DEF ChannelStep
  <2> QED
    BY <1>2, <2>1, ChannelInvNext, EPollUpdateKeepsInv, Zenon
<1>3. ASSUME NEW c \in Channels, Epoll!removeChannel(c) PROVE ChannelStep /\ EPollInv'
  <2>1. remove(c)
    BY <1>3, Zenon DEF Epoll!removeChannel, Epoll!remove, remove, Epoll!Removable, Removable,
                Epoll!isNoneEvent, isNoneEvent, Epoll!Erased, Erased
  <2>2. ChannelStep
    BY <2>1, Zenon DEF ChannelStep
  <2> QED
    BY <1>3, <2>2, ChannelInvNext, EPollRemoveKeepsInv, Zenon
<1>4. ASSUME NEW c \in Channels, Epoll!ConstructChannel(c) PROVE ChannelStep /\ EPollInv'
  <2>1. Construct(c) /\ epoll' = epoll
    BY <1>4, Zenon DEF Epoll!ConstructChannel, Epoll!Construct, Construct
  <2>2. ChannelStep
    BY <2>1, Zenon DEF ChannelStep
  <2> QED
    BY <2>1, <2>2, ChannelInvNext, EPollLifeKeepsInv, Zenon
<1>5. ASSUME NEW c \in Channels, Epoll!DestructChannel(c) PROVE ChannelStep /\ EPollInv'
  <2>1. Destruct(c) /\ epoll' = Epoll!ctlDel(c)
    BY <1>5, Zenon DEF Epoll!DestructChannel, Epoll!Destruct, Destruct
  <2>2. ChannelStep
    BY <2>1, Zenon DEF ChannelStep
  <2> QED
    BY <2>1, <2>2, ChannelInvNext, EPollDestructKeepsInv, Zenon
<1> QED
  BY <1>1, <1>2, <1>3, <1>4, <1>5, Zenon DEF Epoll!Next

\* The invariant says what the run checks of EPollPoller.
LEMMA EPollInvIsEnough ==
  ASSUME EPollInv
  PROVE  Epoll!TypeOK /\ MapIsTruthful /\ Epoll!AssertionsHold /\ Epoll!KernelAgrees
<1> USE DEF EPollInv, ChannelInv
<1>1. MapIsTruthful
  BY Zenon DEF ChannelTypes, Marks, MapIsOwn, MapIsTruthful
<1>2. DOMAIN channels_ \subseteq Epoll!Fds /\ \A fd \in DOMAIN channels_ : channels_[fd] \in Channels
  BY DEF ChannelTypes, MapIsOwn, Epoll!Fds
<1>3. DOMAIN epoll \subseteq Epoll!Fds
  BY <1>2, Zenon DEF Epoll!KernelAgrees
<1>4. ASSUME NEW fd \in DOMAIN epoll PROVE epoll[fd].ptr \in Channels /\ epoll[fd].events \subseteq Epoll!Events
  BY <1>2, <1>4 DEF Epoll!KernelAgrees, ChannelTypes, Epoll!Events, Events
<1>5. Epoll!TypeOK
  BY <1>2, <1>3, <1>4, Zenon DEF Epoll!TypeOK, Epoll!ChannelTypeOK, ChannelTypes, Epoll!Events, Events
<1>6. ASSUME NEW c \in live PROVE index_[c] = Epoll!kNew => ~Epoll!fdKnown(c)
  BY <1>6, KnownIsOwn, Zenon DEF ChannelTypes, Marks, Epoll!fdKnown
<1>7. ASSUME NEW c \in live
      PROVE  /\ index_[c] # Epoll!kNew => Epoll!hasChannel(c)
             /\ Epoll!Removable(c) => Epoll!hasChannel(c) /\ index_[c] \in {Epoll!kAdded, Epoll!kDeleted}
  BY <1>7 DEF ChannelTypes, Marks, Epoll!Removable, Epoll!hasChannel, hasChannel
<1>8. Epoll!AssertionsHold
  BY <1>6, <1>7, Zenon DEF Epoll!AssertionsHold
<1> QED
  BY <1>1, <1>5, <1>8, Zenon
------------------------------------------------------------------------------
(* PollPoller: index_ leads to a channel's entry of the vector.  Each entry has its channel, *)
(* so that the one removeChannel() moves is found by its descriptor.                         *)

Entry(c) == [fd |-> Poll!EntryFd(c, events_[c]), events |-> events_[c]]

EntryType == [fd : Poll!Fds \cup {Poll!Ignored(fd) : fd \in Poll!Fds}, events : SUBSET Events]

IndexLeadsToEntry ==
  \A c \in Registered : index_[c] \in 0 .. Len(pollfds_) - 1 /\ pollfds_[index_[c] + 1] = Entry(c)

EveryEntryHasChannel == \A i \in 1 .. Len(pollfds_) : \E c \in Registered : index_[c] + 1 = i

Counted == IsFiniteSet(DOMAIN channels_) /\ Cardinality(DOMAIN channels_) = Len(pollfds_)

\* A channel that was removed keeps its last index_.
IndexMarks ==
  /\ index_ \in [Channels -> Nat \cup {-1}]
  /\ \A c \in Channels : c \notin removed => (addedToLoop_[c] <=> index_[c] >= 0)

IdleIfUnknown == \A c \in Channels : ~addedToLoop_[c] => events_[c] = {}

PollInv ==
  /\ kind = "poll" /\ ChannelInv /\ IndexMarks /\ IdleIfUnknown
  /\ pollfds_ \in Seq(EntryType) /\ IndexLeadsToEntry /\ EveryEntryHasChannel /\ Counted

\* A channel wants nothing exactly if its entry's descriptor is negative, and the descriptor can be
\* read back from the entry in either form.
LEMMA EntryReadsBack ==
  ASSUME NEW c \in Channels, NEW ev \in SUBSET Events
  PROVE  /\ Poll!EntryFd(c, ev) < 0 <=> ev = {}
         /\ Poll!decoded(Poll!EntryFd(c, ev)) = FdOf[c]
         /\ ev = {} => Poll!EntryFd(c, ev) = Poll!Ignored(FdOf[c])
         /\ [fd |-> Poll!EntryFd(c, ev), events |-> ev] \in EntryType
<1>1. FdOf[c] \in Nat /\ FdOf[c] \in Poll!Fds
  BY Zenon DEF Poll!Fds
<1>2. Poll!EntryFd(c, ev) \in Poll!Fds \cup {Poll!Ignored(fd) : fd \in Poll!Fds}
  BY <1>1, Zenon DEF Poll!EntryFd
<1> QED
  BY <1>1, <1>2 DEF Poll!EntryFd, Poll!decoded, Poll!Ignored, EntryType

\* So two channels of the map have different entries, at different places.
LEMMA IndicesDiffer ==
  ASSUME PollInv, NEW c \in Registered, NEW d \in Registered, index_[c] = index_[d]
  PROVE  c = d
<1>1. c \in Channels /\ d \in Channels /\ events_[c] \in SUBSET Events /\ events_[d] \in SUBSET Events
  BY Zenon DEF Registered, PollInv, ChannelInv, ChannelTypes
<1>2. Entry(c) = Entry(d)
  BY Zenon DEF PollInv, IndexLeadsToEntry
<1>3. Poll!EntryFd(c, events_[c]) = Poll!EntryFd(d, events_[d])
  BY <1>2, Zenon DEF Entry
<1>4. FdOf[c] = Poll!decoded(Poll!EntryFd(c, events_[c])) /\ FdOf[d] = Poll!decoded(Poll!EntryFd(d, events_[d]))
  BY <1>1, EntryReadsBack, Zenon
<1>5. FdOf[c] = FdOf[d]
  BY <1>3, <1>4, Zenon
<1> QED
  BY <1>5, Zenon DEF Registered, hasChannel

\* A poller without channels satisfies the invariant.
LEMMA PollInvInit == kind = "poll" /\ Poll!Init => PollInv
<1> SUFFICES ASSUME kind = "poll", Poll!Init PROVE PollInv
  BY Zenon
<1> USE DEF Poll!Init, Poll!ChannelInit
<1>1. ChannelTypes /\ OneChannelPerFd /\ MapIsOwn
  BY Zenon DEF ChannelTypes, OneChannelPerFd, MapIsOwn
<1>2. Marks /\ IndexMarks /\ IdleIfUnknown
  BY DEF Marks, hasChannel, IndexMarks, IdleIfUnknown
<1>3. Registered = {} /\ pollfds_ \in Seq(EntryType) /\ Len(pollfds_) = 0 /\ DOMAIN channels_ = {}
  BY DEF Registered, hasChannel
<1>4. IndexLeadsToEntry /\ EveryEntryHasChannel
  BY <1>3 DEF IndexLeadsToEntry, EveryEntryHasChannel
<1>5. Counted
  BY <1>3, FS_EmptySet, Zenon DEF Counted
<1> QED
  BY <1>1, <1>2, <1>3, <1>4, <1>5, Zenon DEF PollInv, ChannelInv

\* updateChannel() of a channel that is not in the vector: its entry is the last one.
LEMMA PollAddKeepsInv ==
  ASSUME PollInv, kind' = kind, NEW c \in Channels, Poll!SetEvents(c), Poll!AddChannel(c)
  PROVE  Updates(c) /\ PollInv'
<1>1. SetEvents(c) /\ channels_' = Mapped(c)
  BY Zenon DEF Poll!SetEvents, SetEvents, Poll!Wanted, Wanted, Poll!Events, Events, Poll!AddChannel, Poll!Mapped, Mapped
<1>2. Updates(c) /\ ChannelInv'
  BY <1>1, ChannelInvNext, Zenon DEF Updates, ChannelStep, PollInv
<1>3. /\ c \in live \ removed /\ removed' = removed /\ addedToLoop_' = [addedToLoop_ EXCEPT ![c] = TRUE]
      /\ index_' = [index_ EXCEPT ![c] = Len(pollfds_)] /\ index_[c] < 0
      /\ pollfds_' = Append(pollfds_, [fd |-> FdOf[c], events |-> events_'[c]])
  BY <1>1, Zenon DEF SetEvents, Poll!AddChannel, Poll!NewIndex
<1>4. ~addedToLoop_[c] /\ events_[c] = {} /\ ~hasChannel(c)
  <2>1. index_[c] \in Nat \cup {-1} /\ (addedToLoop_[c] <=> index_[c] >= 0)
    BY <1>3, Zenon DEF PollInv, IndexMarks
  <2>2. ~(index_[c] >= 0)
    BY <1>3, <2>1
  <2> QED
    BY <2>1, <2>2, Zenon DEF PollInv, IdleIfUnknown, ChannelInv, Marks
\* A channel that wanted nothing is only enabled.
<1>5. PICK e \in SUBSET Events : e # {} /\ events_' = [events_ EXCEPT ![c] = e]
  <2>1. PICK e \in Wanted(events_[c]) : e \in SUBSET Events /\ events_' = [events_ EXCEPT ![c] = e]
    BY <1>1, WantedIsSet, Zenon DEF PollInv
  <2>2. e # {}
    BY <1>4, <2>1, Zenon DEF Wanted, Events, PollInv
  <2> QED
    BY <2>1, <2>2, Zenon
<1>6. /\ DOMAIN channels_' = DOMAIN channels_ \union {FdOf[c]}
      /\ \A d \in Channels : hasChannel(d)' <=> hasChannel(d) \/ d = c
  BY <1>2, UpdatedMap, Zenon DEF PollInv
<1>7. Registered' = Registered \union {c} /\ c \notin Registered
  BY <1>4, <1>6, Zenon DEF Registered
<1>8. IndexMarks' /\ IdleIfUnknown'
  BY <1>3, <1>5 DEF PollInv, ChannelInv, ChannelTypes, IndexMarks, IdleIfUnknown
<1>9. Entry(c)' = [fd |-> FdOf[c], events |-> events_'[c]] /\ Entry(c)' \in EntryType
  <2>1. events_'[c] = e
    BY <1>5, Zenon DEF PollInv, ChannelInv, ChannelTypes
  <2>2. Entry(c)' = [fd |-> Poll!EntryFd(c, e), events |-> e]
    BY <2>1, Zenon DEF Entry, Poll!EntryFd
  <2> QED
    BY <1>5, <2>1, <2>2, EntryReadsBack, Zenon DEF Poll!EntryFd
<1>10. /\ pollfds_' \in Seq(EntryType) /\ Len(pollfds_') = Len(pollfds_) + 1 /\ Len(pollfds_) \in Nat
       /\ pollfds_'[Len(pollfds_) + 1] = Entry(c)' /\ \A i \in 1 .. Len(pollfds_) : pollfds_'[i] = pollfds_[i]
  <2>1. pollfds_ \in Seq(EntryType) /\ pollfds_' = Append(pollfds_, Entry(c)') /\ Entry(c)' \in EntryType
    BY <1>3, <1>9, Zenon DEF PollInv
  <2> QED
    BY <2>1
<1>11. IndexLeadsToEntry'
  <2>1. ASSUME NEW d \in Registered' PROVE index_'[d] \in 0 .. Len(pollfds_') - 1 /\ pollfds_'[index_'[d] + 1] = Entry(d)'
    <3>1. CASE d = c
      BY <1>3, <1>10, <3>1 DEF PollInv, IndexMarks
    <3>2. CASE d # c
      <4>1. d \in Registered /\ d \in Channels
        BY <1>7, <2>1, <3>2, Zenon DEF Registered
      <4>2. index_'[d] = index_[d] /\ events_'[d] = events_[d]
        BY <1>3, <1>5, <3>2, <4>1, Zenon DEF PollInv, IndexMarks, ChannelInv, ChannelTypes
      <4>3. Entry(d)' = Entry(d)
        BY <4>2, Zenon DEF Entry, Poll!EntryFd
      <4>4. index_[d] \in 0 .. Len(pollfds_) - 1 /\ pollfds_[index_[d] + 1] = Entry(d)
        BY <4>1, Zenon DEF PollInv, IndexLeadsToEntry
      <4>5. index_[d] + 1 \in 1 .. Len(pollfds_) /\ index_'[d] \in 0 .. Len(pollfds_') - 1
        BY <1>10, <4>2, <4>4
      <4> QED
        BY <1>10, <4>2, <4>3, <4>4, <4>5, Zenon
    <3> QED
      BY <3>1, <3>2, Zenon
  <2> QED
    BY <2>1, Zenon DEF IndexLeadsToEntry
<1>12. EveryEntryHasChannel'
  <2>1. ASSUME NEW i \in 1 .. Len(pollfds_') PROVE \E d \in Registered' : index_'[d] + 1 = i
    <3>1. CASE i = Len(pollfds_) + 1
      <4>1. index_'[c] + 1 = i /\ c \in Registered'
        BY <1>3, <1>7, <3>1, Zenon DEF PollInv, IndexMarks
      <4> QED
        BY <4>1, Zenon
    <3>2. CASE i # Len(pollfds_) + 1
      <4>1. PICK d \in Registered : index_[d] + 1 = i
        BY <1>10, <2>1, <3>2 DEF PollInv, EveryEntryHasChannel
      <4>2. d # c /\ d \in Registered' /\ d \in Channels
        BY <1>7, Zenon DEF Registered
      <4>3. index_'[d] = index_[d]
        BY <1>3, <4>2, Zenon DEF PollInv, IndexMarks
      <4> QED
        BY <4>1, <4>2, <4>3, Zenon
    <3> QED
      BY <3>1, <3>2, Zenon
  <2> QED
    BY <2>1, Zenon DEF EveryEntryHasChannel
<1>13. Counted'
  <2>1. FdOf[c] \notin DOMAIN channels_
    BY <1>3, <1>4, KnownIsOwn, Zenon DEF PollInv
  <2>2. IsFiniteSet(DOMAIN channels_) /\ Cardinality(DOMAIN channels_) = Len(pollfds_)
    BY Zenon DEF PollInv, Counted
  <2>3. /\ IsFiniteSet(DOMAIN channels_ \cup {FdOf[c]})
        /\ Cardinality(DOMAIN channels_ \cup {FdOf[c]}) = Cardinality(DOMAIN channels_) + 1
    BY <2>1, <2>2, FS_AddElement, Zenon
  <2> QED
    BY <1>6, <1>10, <2>2, <2>3, Zenon DEF Counted
<1> QED
  BY <1>2, <1>8, <1>10, <1>11, <1>12, <1>13, Zenon DEF PollInv

\* updateChannel() of one that is: it writes the entry of its channel and no other one.
LEMMA PollModifyKeepsInv ==
  ASSUME PollInv, kind' = kind, NEW c \in Channels, Poll!SetEvents(c), Poll!ModifyChannel(c)
  PROVE  Updates(c) /\ PollInv'
<1>1. SetEvents(c) /\ channels_' = channels_ /\ index_' = index_ /\ index_[c] >= 0
  BY Zenon DEF Poll!SetEvents, SetEvents, Poll!Wanted, Wanted, Poll!Events, Events, Poll!ModifyChannel
<1>2. c \in live \ removed /\ removed' = removed /\ addedToLoop_' = [addedToLoop_ EXCEPT ![c] = TRUE]
  BY <1>1, Zenon DEF SetEvents
<1>3. hasChannel(c) /\ c \in Registered /\ addedToLoop_' = addedToLoop_
  BY <1>1, <1>2, Zenon DEF PollInv, IndexMarks, ChannelInv, ChannelTypes, Marks, Registered
<1>4. Updates(c) /\ ChannelInv'
  BY <1>1, <1>3, ChannelInvNext, Zenon DEF Updates, ChannelStep, PollInv
<1>5. PICK e \in SUBSET Events : events_' = [events_ EXCEPT ![c] = e]
  BY <1>1, WantedIsSet, Zenon DEF PollInv
<1>6. Registered' = Registered
  BY <1>1, Zenon DEF Registered, hasChannel
<1>7. IndexMarks' /\ IdleIfUnknown'
  BY <1>1, <1>2, <1>3, <1>5, Zenon DEF PollInv, ChannelInv, ChannelTypes, IndexMarks, IdleIfUnknown, Marks
<1>8. Entry(c)' = [fd |-> Poll!EntryFd(c, events_'[c]), events |-> events_'[c]] /\ Entry(c)' \in EntryType
  <2>1. events_'[c] = e
    BY <1>5, Zenon DEF PollInv, ChannelInv, ChannelTypes
  <2>2. Entry(c)' = [fd |-> Poll!EntryFd(c, e), events |-> e]
    BY <2>1, Zenon DEF Entry, Poll!EntryFd
  <2> QED
    BY <1>5, <2>1, <2>2, EntryReadsBack
<1>9. /\ pollfds_' \in Seq(EntryType) /\ Len(pollfds_') = Len(pollfds_) /\ Len(pollfds_) \in Nat
      /\ pollfds_'[index_[c] + 1] = Entry(c)'
      /\ \A i \in 1 .. Len(pollfds_) : i # index_[c] + 1 => pollfds_'[i] = pollfds_[i]
  <2>1. pollfds_ \in Seq(EntryType) /\ pollfds_' = [pollfds_ EXCEPT ![index_[c] + 1] = Entry(c)'] /\ Entry(c)' \in EntryType
    BY <1>8, Zenon DEF PollInv, Poll!ModifyChannel
  <2>2. index_[c] \in 0 .. Len(pollfds_) - 1
    BY <1>3, Zenon DEF PollInv, IndexLeadsToEntry
  <2> QED
    BY <2>1, <2>2
<1>10. IndexLeadsToEntry'
  <2>1. ASSUME NEW d \in Registered' PROVE index_'[d] \in 0 .. Len(pollfds_') - 1 /\ pollfds_'[index_'[d] + 1] = Entry(d)'
    <3>1. d \in Registered /\ d \in Channels
      BY <1>6, Zenon DEF Registered
    <3>2. index_[d] \in 0 .. Len(pollfds_) - 1 /\ pollfds_[index_[d] + 1] = Entry(d)
      BY <3>1, Zenon DEF PollInv, IndexLeadsToEntry
    <3>3. CASE d = c
      BY <1>1, <1>9, <3>2, <3>3, Zenon
    <3>4. CASE d # c
      <4>1. index_[d] # index_[c]
        BY <1>3, <3>1, <3>4, IndicesDiffer, Zenon
      <4>2. events_'[d] = events_[d]
        BY <1>5, <3>1, <3>4, Zenon DEF PollInv, ChannelInv, ChannelTypes
      <4>3. Entry(d)' = Entry(d)
        BY <4>2, Zenon DEF Entry, Poll!EntryFd
      <4>4. index_[c] \in Int
        BY <1>3 DEF PollInv, IndexLeadsToEntry
      <4>5. index_[d] + 1 \in 1 .. Len(pollfds_) /\ index_[d] + 1 # index_[c] + 1
        BY <1>9, <3>2, <4>1, <4>4
      <4> QED
        BY <1>1, <1>9, <3>2, <4>3, <4>5, Zenon
    <3> QED
      BY <3>3, <3>4, Zenon
  <2> QED
    BY <2>1, Zenon DEF IndexLeadsToEntry
<1>11. EveryEntryHasChannel' /\ Counted'
  BY <1>1, <1>6, <1>9, Zenon DEF PollInv, EveryEntryHasChannel, Counted
<1> QED
  BY <1>4, <1>7, <1>9, <1>10, <1>11, Zenon DEF PollInv
\* What removeChannel() does: the last entry, of channel d, is now where the removed one was.  (If
\* the removed one is the last, d is the removed channel, and only the vector is shorter.)
LEMMA PollRemoved ==
  ASSUME PollInv, NEW c \in Channels, Poll!removeChannel(c)
  PROVE  /\ remove(c) /\ c \in Registered
         /\ pollfds_' \in Seq(EntryType) /\ Len(pollfds_') = Len(pollfds_) - 1
         /\ \E d \in Registered :
              /\ index_[d] = Len(pollfds_) - 1 /\ index_' = [index_ EXCEPT ![d] = index_[c]]
              /\ \A i \in 1 .. Len(pollfds_) - 1 :
                   pollfds_'[i] = IF i = index_[c] + 1 THEN pollfds_[Len(pollfds_)] ELSE pollfds_[i]
<1>1. remove(c)
  BY Zenon DEF Poll!removeChannel, Poll!remove, remove, Poll!Removable, Removable, Poll!isNoneEvent,
         isNoneEvent, Poll!Erased, Erased
<1>2. c \in Registered
  BY <1>1, RemovedMap, Zenon DEF PollInv, Registered
<1>3. pollfds_ \in Seq(EntryType) /\ index_[c] \in 0 .. Len(pollfds_) - 1 /\ Len(pollfds_) \in 1 .. Len(pollfds_)
  BY <1>2 DEF PollInv, IndexLeadsToEntry
<1> DEFINE n == Len(pollfds_)
           moved == IF index_[c] = n - 1 THEN pollfds_ ELSE [pollfds_ EXCEPT ![index_[c] + 1] = pollfds_[n]]
<1>4. PICK d \in Registered : index_[d] + 1 = n
  BY <1>3, Zenon DEF PollInv, EveryEntryHasChannel
<1>5. index_[d] = n - 1 /\ pollfds_[n] = Entry(d) /\ d \in Channels
  <2>1. index_[d] \in 0 .. n - 1 /\ pollfds_[index_[d] + 1] = Entry(d)
    BY Zenon DEF PollInv, IndexLeadsToEntry
  <2> QED
    BY <1>4, <2>1 DEF Registered
\* The channel found by the descriptor of the last entry is d.
<1>6. Poll!back.fd = Poll!EntryFd(d, events_[d])
  BY <1>5 DEF Entry, Poll!back
<1>7. channels_[Poll!decoded(Poll!back.fd)] = d
  <2>1. events_[d] \in SUBSET Events
    BY <1>5, Zenon DEF PollInv, ChannelInv, ChannelTypes
  <2>2. Poll!decoded(Poll!EntryFd(d, events_[d])) = FdOf[d]
    BY <1>5, <2>1, EntryReadsBack, Zenon
  <2>3. Poll!decoded(Poll!back.fd) = FdOf[d]
    BY <1>6, <2>2, Zenon
  <2> QED
    BY <2>3, Zenon DEF Registered, hasChannel
<1>8. Poll!MovedIndex(c, index_[c]) = [index_ EXCEPT ![d] = index_[c]]
  BY <1>7, Zenon DEF Poll!MovedIndex, Poll!decoded
<1>9. index_' = [index_ EXCEPT ![d] = index_[c]]
  <2>1. CASE index_[c] = n - 1
    <3>1. index_' = index_ /\ index_[d] = index_[c]
      BY <1>5, <2>1, Zenon DEF Poll!removeChannel
    <3> QED
      BY <1>5, <3>1, Zenon DEF PollInv, IndexMarks
  <2>2. CASE index_[c] # n - 1
    BY <1>8, <2>2, Zenon DEF Poll!removeChannel
  <2> QED
    BY <2>1, <2>2, Zenon
<1>10. moved \in Seq(EntryType) /\ Len(moved) = n
       /\ \A i \in 1 .. n - 1 : moved[i] = IF i = index_[c] + 1 THEN pollfds_[n] ELSE pollfds_[i]
  <2>1. pollfds_[n] \in EntryType
    BY <1>3
  <2>2. CASE index_[c] = n - 1
    BY <1>3, <2>2
  <2>3. CASE index_[c] # n - 1
    BY <1>3, <2>1, <2>3
  <2> QED
    BY <2>2, <2>3, Zenon
<1>11. pollfds_' = SubSeq(moved, 1, n - 1)
  BY Zenon DEF Poll!removeChannel, Poll!back
<1>12. /\ pollfds_' \in Seq(EntryType) /\ Len(pollfds_') = n - 1
       /\ \A i \in 1 .. n - 1 : pollfds_'[i] = moved[i]
  <2> HIDE DEF moved
  <2> QED
    BY <1>3, <1>10, <1>11
<1>13. \A i \in 1 .. n - 1 : pollfds_'[i] = IF i = index_[c] + 1 THEN pollfds_[n] ELSE pollfds_[i]
  <2> HIDE DEF moved
  <2> QED
    BY <1>10, <1>12, Zenon
<1> QED
  BY <1>1, <1>2, <1>5, <1>9, <1>12, <1>13, Zenon

\* removeChannel(): the channel whose entry moved is told, and the others still find theirs.
LEMMA PollRemoveKeepsInv ==
  ASSUME PollInv, kind' = kind, NEW c \in Channels, Poll!removeChannel(c)
  PROVE  remove(c) /\ PollInv'
<1> DEFINE n == Len(pollfds_)
<1>1. /\ remove(c) /\ c \in Registered
      /\ pollfds_' \in Seq(EntryType) /\ Len(pollfds_') = n - 1
  BY PollRemoved, Zenon
<1>2. PICK d \in Registered :
        /\ index_[d] = n - 1 /\ index_' = [index_ EXCEPT ![d] = index_[c]]
        /\ \A i \in 1 .. n - 1 : pollfds_'[i] = IF i = index_[c] + 1 THEN pollfds_[n] ELSE pollfds_[i]
  BY PollRemoved, Zenon
<1>3. n \in Nat
  BY DEF PollInv
<1> HIDE DEF n
<1>4. ChannelInv'
  BY <1>1, ChannelInvNext, Zenon DEF PollInv, ChannelStep
<1>5. /\ events_[c] = {} /\ events_' = events_ /\ removed' = removed \cup {c}
      /\ addedToLoop_' = [addedToLoop_ EXCEPT ![c] = FALSE]
  BY <1>1, Zenon DEF remove, Removable, isNoneEvent
<1>6. /\ hasChannel(c) /\ DOMAIN channels_' = DOMAIN channels_ \ {FdOf[c]}
      /\ \A x \in Channels : hasChannel(x)' <=> hasChannel(x) /\ x # c
  BY <1>1, RemovedMap, Zenon DEF PollInv
<1>7. Registered' = Registered \ {c}
  BY <1>6, Zenon DEF Registered
<1>8. \A x \in Registered : /\ x \in Channels /\ index_[x] \in 0 .. n - 1 /\ pollfds_[index_[x] + 1] = Entry(x)
                            /\ addedToLoop_[x] /\ x \notin removed
  BY Zenon DEF PollInv, IndexLeadsToEntry, Registered, ChannelInv, Marks, n
<1>9. \A x \in Channels : index_'[x] = IF x = d THEN index_[c] ELSE index_[x]
  BY <1>2, <1>8, Zenon DEF PollInv, IndexMarks
<1>10. IndexMarks'
  <2>1. index_' \in [Channels -> Nat \cup {-1}]
    BY <1>1, <1>2, <1>8, Zenon DEF PollInv, IndexMarks
  <2>2. ASSUME NEW x \in Channels, x \notin removed' PROVE addedToLoop_'[x] <=> index_'[x] >= 0
    <3>1. x # c /\ x \notin removed /\ addedToLoop_'[x] = addedToLoop_[x]
      BY <1>5, <2>2, Zenon DEF PollInv, ChannelInv, ChannelTypes
    <3>2. CASE x = d
      BY <1>1, <1>8, <1>9, <3>1, <3>2
    <3>3. CASE x # d
      BY <1>9, <3>1, <3>3, Zenon DEF PollInv, IndexMarks
    <3> QED
      BY <3>2, <3>3, Zenon
  <2> QED
    BY <2>1, <2>2, Zenon DEF IndexMarks
<1>11. IdleIfUnknown'
  BY <1>5, Zenon DEF PollInv, IdleIfUnknown, ChannelInv, ChannelTypes
<1>12. \A x, y \in Registered : x # y => index_[x] # index_[y]
  BY IndicesDiffer, Zenon
<1>13. IndexLeadsToEntry'
  <2>1. ASSUME NEW x \in Registered' PROVE index_'[x] \in 0 .. Len(pollfds_') - 1 /\ pollfds_'[index_'[x] + 1] = Entry(x)'
    <3>1. x \in Registered /\ x # c /\ x \in Channels /\ index_[c] # index_[x]
      BY <1>1, <1>7, <1>8, <1>12, <2>1, Zenon
    <3>2. Entry(x)' = Entry(x)
      BY <1>5, Zenon DEF Entry, Poll!EntryFd
    <3>3. CASE x = d
      <4>1. index_'[x] = index_[c] /\ index_[c] \in 0 .. n - 2
        BY <1>1, <1>2, <1>3, <1>8, <1>9, <3>1, <3>3
      <4>2. pollfds_[n] = Entry(x)
        BY <1>2, <1>3, <1>8, <3>1, <3>3
      <4>3. index_[c] + 1 \in 1 .. n - 1
        BY <1>3, <4>1
      <4>4. pollfds_'[index_[c] + 1] = pollfds_[n]
        BY <1>2, <4>3, Zenon
      <4> QED
        BY <1>1, <1>3, <3>2, <4>1, <4>2, <4>4
    <3>4. CASE x # d
      <4>1. index_'[x] = index_[x] /\ index_[x] \in 0 .. n - 1 /\ index_[x] # n - 1 /\ pollfds_[index_[x] + 1] = Entry(x)
        BY <1>2, <1>8, <1>9, <1>12, <3>1, <3>4, Zenon
      <4>2. index_[x] + 1 \in 1 .. n - 1 /\ index_[x] + 1 # index_[c] + 1
        BY <1>1, <1>3, <1>8, <3>1, <4>1, SMTT(20)
      <4>3. pollfds_'[index_[x] + 1] = pollfds_[index_[x] + 1]
        BY <1>2, <4>2, Zenon
      <4> QED
        BY <1>1, <1>3, <3>2, <4>1, <4>2, <4>3
    <3> QED
      BY <3>3, <3>4, Zenon
  <2> QED
    BY <2>1, Zenon DEF IndexLeadsToEntry
<1>14. EveryEntryHasChannel'
  <2>1. ASSUME NEW i \in 1 .. n - 1 PROVE \E x \in Registered' : index_'[x] + 1 = i
    <3>1. CASE i = index_[c] + 1
      <4>1. d # c
        BY <1>1, <1>2, <1>3, <1>8, <2>1, <3>1
      <4>2. d \in Registered' /\ index_'[d] + 1 = i
        BY <1>7, <1>8, <1>9, <3>1, <4>1, Zenon
      <4> QED
        BY <4>2, Zenon
    <3>2. CASE i # index_[c] + 1
      <4>1. i \in 1 .. Len(pollfds_)
        BY <1>3, <2>1 DEF n
      <4>2. PICK x \in Registered : index_[x] + 1 = i
        BY <4>1, Zenon DEF PollInv, EveryEntryHasChannel
      <4>3. x # c /\ x # d /\ x \in Channels
        BY <1>1, <1>2, <1>3, <1>8, <2>1, <3>2, <4>2
      <4>4. x \in Registered' /\ index_'[x] + 1 = i
        BY <1>7, <1>9, <4>2, <4>3, Zenon
      <4> QED
        BY <4>4, Zenon
    <3> QED
      BY <3>1, <3>2, Zenon
  <2> QED
    BY <1>1, <2>1, Zenon DEF EveryEntryHasChannel
<1>15. Counted'
  <2>1. FdOf[c] \in DOMAIN channels_ /\ IsFiniteSet(DOMAIN channels_) /\ Cardinality(DOMAIN channels_) = n
    BY <1>6, Zenon DEF PollInv, Counted, n, hasChannel
  <2>2. /\ IsFiniteSet(DOMAIN channels_ \ {FdOf[c]})
        /\ Cardinality(DOMAIN channels_ \ {FdOf[c]}) = Cardinality(DOMAIN channels_) - 1
    BY <2>1, FS_RemoveElement, Zenon
  <2> QED
    BY <1>1, <1>6, <2>1, <2>2, Zenon DEF Counted
<1> QED
  BY <1>1, <1>4, <1>10, <1>11, <1>13, <1>14, <1>15, Zenon DEF PollInv

\* Construction and destruction leave the map and the vector alone.
LEMMA PollLifeKeepsInv ==
  ASSUME PollInv, kind' = kind, NEW c \in Channels, Construct(c) \/ Destruct(c), pollfds_' = pollfds_
  PROVE  PollInv'
<1>1. ChannelInv'
  BY ChannelInvNext, Zenon DEF PollInv, ChannelStep
<1>2. channels_' = channels_ /\ addedToLoop_' = addedToLoop_
  BY Zenon DEF Construct, Destruct
<1>3. Registered' = Registered
  BY <1>2, Zenon DEF Registered, hasChannel
<1>4. IndexMarks' /\ IdleIfUnknown' /\ \A x \in Registered : index_'[x] = index_[x] /\ events_'[x] = events_[x]
  <2>1. CASE Construct(c)
    BY <2>1, Zenon DEF Construct, PollInv, IndexMarks, IdleIfUnknown
  <2>2. CASE Destruct(c)
    <3>1. /\ ~addedToLoop_[c] /\ removed' = removed \ {c} /\ events_' = [events_ EXCEPT ![c] = {}]
          /\ index_' = [index_ EXCEPT ![c] = -1] /\ addedToLoop_' = addedToLoop_ /\ c \notin Registered
      BY <2>2, Zenon DEF Destruct, PollInv, ChannelInv, Marks, Registered
    <3>2. IndexMarks' /\ IdleIfUnknown'
      BY <3>1 DEF PollInv, IndexMarks, IdleIfUnknown, ChannelInv, ChannelTypes
    <3> QED
      BY <3>1, <3>2, Zenon DEF PollInv, IndexMarks, ChannelInv, ChannelTypes, Registered
  <2> QED
    BY <2>1, <2>2, Zenon
<1>5. \A x \in Registered : Entry(x)' = Entry(x)
  BY <1>4, Zenon DEF Entry, Poll!EntryFd
<1>6. IndexLeadsToEntry'
  BY <1>3, <1>4, <1>5, Zenon DEF PollInv, IndexLeadsToEntry
<1>7. EveryEntryHasChannel'
  BY <1>3, <1>4, Zenon DEF PollInv, EveryEntryHasChannel
<1>8. Counted'
  BY <1>2, Zenon DEF PollInv, Counted
<1> QED
  BY <1>1, <1>4, <1>6, <1>7, <1>8, Zenon DEF PollInv
\* Every step of PollPoller is one of those both pollers take, and keeps the invariant.
LEMMA PollNext ==
  ASSUME PollInv, kind' = kind, Poll!Next
  PROVE  ChannelStep /\ PollInv'
<1> ChannelInv
  BY Zenon DEF PollInv
<1>1. CASE Poll!poll
  <2>1. UNCHANGED <<live, removed, events_, index_, addedToLoop_, channels_, pollfds_>>
    BY <1>1, Zenon DEF Poll!poll
  \* poll(2) reports an entry whose descriptor is not negative, which is the descriptor of its channel.
  <2>2. ASSUME NEW i \in DOMAIN pollfds_, pollfds_[i].fd >= 0 PROVE channels_[pollfds_[i].fd] \in Registered
    <3>1. i \in 1 .. Len(pollfds_)
      BY <2>2 DEF PollInv
    <3>2. PICK c \in Registered : index_[c] + 1 = i
      BY <3>1, Zenon DEF PollInv, EveryEntryHasChannel
    <3>3. pollfds_[i].fd = Poll!EntryFd(c, events_[c]) /\ c \in Channels /\ events_[c] \in SUBSET Events
      <4>1. c \in Channels /\ events_[c] \in SUBSET Events
        BY Zenon DEF PollInv, Registered, ChannelInv, ChannelTypes
      <4>2. pollfds_[i] = Entry(c)
        BY <3>2, Zenon DEF PollInv, IndexLeadsToEntry
      <4> QED
        BY <4>1, <4>2 DEF Entry
    <3>4. Poll!decoded(Poll!EntryFd(c, events_[c])) = FdOf[c]
      BY <3>3, EntryReadsBack, Zenon
    <3>5. pollfds_[i].fd = FdOf[c]
      <4>1. Poll!EntryFd(c, events_[c]) \in Int
        BY <3>3 DEF Poll!EntryFd, Poll!Ignored
      <4> QED
        BY <2>2, <3>3, <3>4, <4>1 DEF Poll!decoded
    <3> QED
      BY <3>2, <3>5, Zenon DEF Registered, hasChannel
  <2>3. PICK ready \in SUBSET {i \in DOMAIN pollfds_ : pollfds_[i].fd >= 0} :
          activeChannels' = {channels_[pollfds_[i].fd] : i \in ready}
    BY <1>1, Zenon DEF Poll!poll
  <2>4. activeChannels' \in SUBSET Registered
    BY <2>2, <2>3, Zenon
  <2>5. Polls
    BY <2>1, <2>4, Zenon DEF Polls
  <2>6. ChannelInv'
    BY <2>5, ChannelInvNext, Zenon DEF ChannelStep
  <2>7. Registered' = Registered /\ \A c \in Registered : Entry(c)' = Entry(c)
    BY <2>1, Zenon DEF Registered, hasChannel, Entry, Poll!EntryFd
  <2>8. IndexMarks' /\ IdleIfUnknown' /\ Counted'
    BY <2>1, Zenon DEF PollInv, IndexMarks, IdleIfUnknown, Counted
  <2>9. IndexLeadsToEntry' /\ EveryEntryHasChannel'
    BY <2>1, <2>7, Zenon DEF PollInv, IndexLeadsToEntry, EveryEntryHasChannel
  <2> QED
    BY <2>1, <2>5, <2>6, <2>8, <2>9, Zenon DEF ChannelStep, PollInv
<1>2. ASSUME NEW c \in Channels, Poll!updateChannel(c) PROVE ChannelStep /\ PollInv'
  BY <1>2, PollAddKeepsInv, PollModifyKeepsInv, Zenon DEF Poll!updateChannel, ChannelStep
<1>3. ASSUME NEW c \in Channels, Poll!removeChannel(c) PROVE ChannelStep /\ PollInv'
  BY <1>3, PollRemoveKeepsInv, Zenon DEF ChannelStep
<1>4. ASSUME NEW c \in Channels, Poll!ConstructChannel(c) \/ Poll!DestructChannel(c)
      PROVE  ChannelStep /\ PollInv'
  <2>1. (Construct(c) \/ Destruct(c)) /\ pollfds_' = pollfds_
    BY <1>4, Zenon DEF Poll!ConstructChannel, Poll!Construct, Construct, Poll!DestructChannel, Poll!Destruct, Destruct
  <2> QED
    BY <2>1, PollLifeKeepsInv, Zenon DEF ChannelStep
<1> QED
  BY <1>1, <1>2, <1>3, <1>4, Zenon DEF Poll!Next

\* The invariant says what the run checks of PollPoller.
LEMMA PollInvIsEnough ==
  ASSUME PollInv
  PROVE  /\ Poll!TypeOK /\ MapIsTruthful /\ Poll!RemoveAssertionHolds
         /\ Poll!VectorAgrees /\ Poll!IdleEntriesIgnored
<1> USE DEF PollInv, ChannelInv
<1>1. MapIsTruthful
  BY Zenon DEF ChannelTypes, Marks, MapIsOwn, MapIsTruthful
<1>2. DOMAIN channels_ \subseteq Poll!Fds /\ \A fd \in DOMAIN channels_ : channels_[fd] \in Channels
  BY Zenon DEF ChannelTypes, MapIsOwn, Poll!Fds
<1>3. Poll!TypeOK
  BY <1>2, Zenon DEF Poll!TypeOK, Poll!ChannelTypeOK, ChannelTypes, Poll!Events, Events, IndexMarks, EntryType
<1>4. \A c \in Registered : /\ c \in Channels /\ events_[c] \in SUBSET Events /\ index_[c] < Len(pollfds_)
                            /\ pollfds_[index_[c] + 1].fd = Poll!EntryFd(c, events_[c])
                            /\ pollfds_[index_[c] + 1].events = events_[c]
                            /\ pollfds_[index_[c] + 1] = Entry(c)
  BY DEF Registered, ChannelTypes, IndexLeadsToEntry, Entry
<1>5. Poll!RemoveAssertionHolds
  <2>1. ASSUME NEW c \in live, Poll!Removable(c)
        PROVE  pollfds_[index_[c] + 1] = [fd |-> Poll!Ignored(FdOf[c]), events |-> events_[c]]
    <3>1. c \in Registered /\ events_[c] = {}
      BY <2>1, Zenon DEF Poll!Removable, Poll!isNoneEvent, ChannelTypes, Marks, Registered
    <3> QED
      BY <1>4, <3>1, Zenon DEF Entry, Poll!EntryFd
  <2> QED
    BY <2>1, Zenon DEF Poll!RemoveAssertionHolds
<1>6. Poll!VectorAgrees
  <2>1. ASSUME NEW c \in live \ removed
        PROVE  IF index_[c] < 0 THEN ~Poll!fdKnown(c)
               ELSE /\ Poll!hasChannel(c) /\ index_[c] < Len(pollfds_)
                    /\ Poll!decoded(pollfds_[index_[c] + 1].fd) = FdOf[c]
                    /\ pollfds_[index_[c] + 1].events = events_[c]
    <3>1. c \in Channels /\ index_[c] \in Nat \cup {-1} /\ (hasChannel(c) <=> index_[c] >= 0)
      BY <2>1, Zenon DEF ChannelTypes, Marks, IndexMarks
    <3>2. CASE index_[c] < 0
      <4>1. ~hasChannel(c)
        BY <3>1, <3>2
      <4>2. ~Poll!fdKnown(c)
        BY <2>1, <4>1, KnownIsOwn, Zenon DEF Poll!fdKnown
      <4> QED
        BY <3>2, <4>2, Zenon
    <3>3. CASE ~(index_[c] < 0)
      <4>1. hasChannel(c) /\ c \in Registered
        BY <3>1, <3>3 DEF Registered
      <4>2. Poll!hasChannel(c)
        BY <4>1, Zenon DEF hasChannel, Poll!hasChannel
      <4>3. Poll!decoded(Poll!EntryFd(c, events_[c])) = FdOf[c]
        BY <1>4, <4>1, EntryReadsBack, Zenon
      <4>4. Poll!decoded(pollfds_[index_[c] + 1].fd) = FdOf[c]
        BY <1>4, <4>1, <4>3, Zenon
      <4> QED
        BY <1>4, <3>3, <4>1, <4>2, <4>4, Zenon
    <3> QED
      BY <3>2, <3>3, Zenon
  <2>2. Len(pollfds_) = Poll!Cardinality(DOMAIN channels_)
    BY Zenon DEF Counted, Cardinality, Poll!Cardinality
  <2> QED
    BY <2>1, <2>2, Zenon DEF Poll!VectorAgrees
<1>7. Poll!IdleEntriesIgnored
  <2>1. ASSUME NEW i \in DOMAIN pollfds_, pollfds_[i].events = {} PROVE pollfds_[i].fd < 0
    <3>1. i \in 1 .. Len(pollfds_)
      BY <2>1
    <3>2. PICK c \in Registered : index_[c] + 1 = i
      BY <3>1, Zenon DEF EveryEntryHasChannel
    <3>3. events_[c] = {} /\ pollfds_[i].fd = Poll!EntryFd(c, events_[c]) /\ c \in Channels /\ events_[c] \in SUBSET Events
      BY <1>4, <2>1, <3>2, Zenon
    <3>4. Poll!EntryFd(c, events_[c]) < 0
      BY <3>3, EntryReadsBack, Zenon
    <3> QED
      BY <3>3, <3>4, Zenon
  <2> QED
    BY <2>1, Zenon DEF Poll!IdleEntriesIgnored
<1> QED
  BY <1>1, <1>3, <1>5, <1>6, <1>7, Zenon

------------------------------------------------------------------------------
(* The loop's poller, which is one of the two. *)

DefaultPollerInv ==
  newDefaultPoller /\ IF kind = "epoll" THEN EPollInv ELSE PollInv

\* newDefaultPoller() makes a poller that satisfies the invariant of its class.
LEMMA DefaultPollerInvInit == Init => DefaultPollerInv
<1> SUFFICES ASSUME Init PROVE DefaultPollerInv
  BY Zenon
<1>1. newDefaultPoller /\ Epoll!Init /\ Poll!Init
  BY Zenon DEF Init
<1> QED
  BY <1>1, EPollInvInit, PollInvInit, Zenon DEF DefaultPollerInv, newDefaultPoller

\* A step of the loop's poller keeps its invariant, and is a step of the abstract one.
LEMMA DefaultPollerNext ==
  ASSUME DefaultPollerInv, [Next]_vars
  PROVE  DefaultPollerInv' /\ [P!Next]_(P!vars)
<1>1. CASE Next
  <2>1. kind' = kind
    BY <1>1, Zenon DEF Next
  <2>2. CASE kind = "epoll"
    <3>1. EPollInv /\ Epoll!Next
      BY <1>1, <2>2, Zenon DEF Next, DefaultPollerInv
    <3>2. ChannelStep /\ EPollInv' /\ ChannelInv
      BY <3>1, EPollNext, Zenon DEF EPollInv
    <3> QED
      BY <2>1, <2>2, <3>2, ChannelStepIsPollerStep, Zenon DEF DefaultPollerInv, newDefaultPoller
  <2>3. CASE kind = "poll"
    <3>1. PollInv /\ Poll!Next
      BY <1>1, <2>3, Zenon DEF Next, DefaultPollerInv
    <3>2. ChannelStep /\ PollInv' /\ ChannelInv
      BY <2>1, <3>1, PollNext, Zenon DEF PollInv
    <3> QED
      BY <2>1, <2>3, <3>2, ChannelStepIsPollerStep, Zenon DEF DefaultPollerInv, newDefaultPoller
  <2> QED
    BY <2>2, <2>3, Zenon DEF DefaultPollerInv, newDefaultPoller
<1>2. CASE UNCHANGED vars
  <2>1. UNCHANGED <<kind, live, removed, events_, index_, addedToLoop_, channels_, activeChannels, epoll, pollfds_>>
    BY <1>2, Zenon DEF vars, channelVars
  <2>2. UNCHANGED P!vars
    BY <2>1, Zenon DEF P!vars, hasChannel
  <2>3. ChannelInv' <=> ChannelInv
    BY <2>1, Zenon DEF ChannelInv, ChannelTypes, OneChannelPerFd, MapIsOwn, Marks, hasChannel
  <2>4. EPollInv' <=> EPollInv
    BY <2>1, <2>3, Zenon DEF EPollInv, Epoll!KernelAgrees
  <2>5. PollInv' <=> PollInv
    BY <2>1, <2>3, SMTT(30) DEF PollInv, IndexMarks, IdleIfUnknown, IndexLeadsToEntry, EveryEntryHasChannel, Counted,
                      Registered, hasChannel, Entry, Poll!EntryFd
  <2> QED
    BY <2>1, <2>2, <2>4, <2>5, Zenon DEF DefaultPollerInv, newDefaultPoller
<1> QED
  BY <1>1, <1>2, Zenon

\* For any channels and any reuse of descriptors, and with either poller, the assertions of
\* updateChannel(), removeChannel() and ~Channel hold, every pointer epoll can hand back is a live
\* channel with the events it wants, and every channel's index_ leads to its entry of the vector
\* whatever removals have moved (EPollPoller.cc:107-216, PollPoller.cc:69-161).
THEOREM ViewsAlwaysAgree == Spec => []ViewsAgree
<1>1. DefaultPollerInv => ViewsAgree
  BY EPollInvIsEnough, PollInvIsEnough, Zenon
  DEF DefaultPollerInv, newDefaultPoller, ViewsAgree, PollerAssertionsHold, TypeOK, KernelAgrees
<1> QED
  BY <1>1, DefaultPollerInvInit, DefaultPollerNext, PTL DEF Spec

\* Either class does what its base class promises: it keeps the channels registered with it and
\* what they want, and reports only channels that are (Poller.h:36-52).
THEOREM PollersImplementPoller == Spec => ImplementsPoller
<1>1. Init => P!Init
  <2> SUFFICES ASSUME Init PROVE P!Init
    BY Zenon
  <2>1. {c \in Channels : hasChannel(c)} = {} /\ activeChannels = {}
    BY Zenon DEF Init, Epoll!Init, Epoll!ChannelInit, hasChannel
  <2> QED
    BY <2>1, Zenon DEF P!Init
<1> QED
  BY <1>1, DefaultPollerInvInit, DefaultPollerNext, PTL DEF Spec, ImplementsPoller, P!Spec
=============================================================================
