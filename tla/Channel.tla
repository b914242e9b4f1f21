------------------------------- MODULE Channel -------------------------------
(***************************************************************************)
(* muduo::net::Channel as the pollers see it: an object for one file       *)
(* descriptor with the events it wants, its poller-private index_ and the  *)
(* poller's map channels_.  Everything happens in the loop's thread.       *)
(***************************************************************************)
EXTENDS Integers, FiniteSets

CONSTANTS Channels,       \* channel objects, in the course of the program's life
          FdOf            \* the descriptor each one is made for; descriptors are reused

ASSUME ChannelAssumption == FdOf \in [Channels -> Nat]

VARIABLES kind,           \* of the loop's poller: "epoll" or "poll"
          live,           \* channels constructed and not destructed
          removed,        \* those of them that have been removed
          events_, index_, addedToLoop_,
          channels_,      \* the poller's map: channel by descriptor
          activeChannels  \* what the last poll() filled in

channelVars == <<live, removed, events_, index_, addedToLoop_, channels_, activeChannels>>

Events == {"read", "write"}
Fds == {FdOf[c] : c \in Channels}

isNoneEvent(c) == events_[c] = {}
hasChannel(c) == FdOf[c] \in DOMAIN channels_ /\ channels_[FdOf[c]] = c
fdKnown(c) == FdOf[c] \in DOMAIN channels_

ChannelTypeOK ==
  /\ live \subseteq Channels /\ removed \subseteq live
  /\ events_ \in [Channels -> SUBSET Events]
  /\ addedToLoop_ \in [Channels -> BOOLEAN]
  /\ DOMAIN channels_ \subseteq Fds /\ \A fd \in DOMAIN channels_ : channels_[fd] \in Channels
  /\ activeChannels \subseteq Channels

ChannelInit ==
  /\ live = {} /\ removed = {}
  /\ events_ = [c \in Channels |-> {}]
  /\ index_ = [c \in Channels |-> -1]
  /\ addedToLoop_ = [c \in Channels |-> FALSE]
  /\ channels_ = [fd \in {} |-> {}]
  /\ activeChannels = {}

\* A channel is made for an open descriptor, so no other live channel has it.
Construct(c) ==
  /\ c \notin live
  /\ \A d \in live : FdOf[d] # FdOf[c]
  /\ live' = live \cup {c}
  /\ UNCHANGED <<removed, events_, index_, addedToLoop_, channels_, activeChannels>>

\* Its owner has called remove(), as the destructor asserts; and the descriptor is
\* closed.  The object's memory is set to what the next constructor makes of it.
Destruct(c) ==
  /\ c \in live /\ ~addedToLoop_[c]
  /\ live' = live \ {c} /\ removed' = removed \ {c}
  /\ events_' = [events_ EXCEPT ![c] = {}]
  /\ index_' = [index_ EXCEPT ![c] = -1]
  /\ UNCHANGED <<addedToLoop_, channels_, activeChannels>>

\* What enableReading/Writing, disableReading/Writing and disableAll make of events_.
\* With PollPoller no client disables a channel that wants nothing: its removeChannel()
\* would fail an assertion.
Wanted(e) ==
  {e \cup {x} : x \in Events}
    \cup IF e # {} \/ kind = "epoll" THEN {e \ x : x \in {{"read"}, {"write"}, Events}} ELSE {}

\* One of those calls, up to the poller's updateChannel().  Not after remove(), which is
\* for a channel about to be destructed (Poller.h:48).
SetEvents(c) ==
  /\ c \in live \ removed
  /\ \E e \in Wanted(events_[c]) : events_' = [events_ EXCEPT ![c] = e]
  /\ addedToLoop_' = [addedToLoop_ EXCEPT ![c] = TRUE]
  /\ UNCHANGED <<live, removed, activeChannels>>

Erased(fd) == [x \in DOMAIN channels_ \ {fd} |-> channels_[x]]

\* remove(), up to the part of removeChannel() that depends on the poller.
Removable(c) == c \in live /\ addedToLoop_[c] /\ isNoneEvent(c)

remove(c) ==
  /\ Removable(c)
  /\ addedToLoop_' = [addedToLoop_ EXCEPT ![c] = FALSE]
  /\ removed' = removed \cup {c}
  /\ channels_' = Erased(FdOf[c])
  /\ UNCHANGED <<live, events_, activeChannels>>

\* A new entry of the map, or the old one.
Mapped(c) == [fd \in DOMAIN channels_ \cup {FdOf[c]} |-> IF fd = FdOf[c] THEN c ELSE channels_[fd]]

------------------------------------------------------------------------------
\* addedToLoop_ tells the truth about the poller's map (the assertions of ~Channel,
\* Channel.cc:40-46): a live channel is in the map exactly when it has been updated
\* and not removed since, and nothing else is in the map.  So no destructed channel
\* can be reached through a descriptor that has been reused.
MapIsTruthful ==
  /\ \A c \in live : addedToLoop_[c] <=> hasChannel(c)
  /\ \A fd \in DOMAIN channels_ : channels_[fd] \in live /\ FdOf[channels_[fd]] = fd
=============================================================================
