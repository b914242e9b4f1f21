----------------------------- MODULE PollPoller -----------------------------
(***************************************************************************)
(* muduo::net::PollPoller: channels_ beside the vector pollfds_, with      *)
(* index_ the position of a channel's entry (counted from 0).  An entry    *)
(* whose channel wants no events stays in the vector with its descriptor   *)
(* made negative, so that poll(2) ignores it.                              *)
(***************************************************************************)
EXTENDS Channel, Sequences

VARIABLE pollfds_         \* sequence of [fd, events]

vars == <<channelVars, pollfds_>>

\* The encoding of an ignored descriptor, which is its own inverse.
Ignored(fd) == -fd - 1

TypeOK ==
  /\ ChannelTypeOK
  /\ index_ \in [Channels -> Nat \cup {-1}]
  /\ pollfds_ \in Seq([fd : Fds \cup {Ignored(fd) : fd \in Fds}, events : SUBSET Events])

Init == ChannelInit /\ pollfds_ = <<>>

NewIndex == Len(pollfds_)

\* updateChannel() of a channel that is not in the vector.
AddChannel(c) ==
  /\ index_[c] < 0
  /\ pollfds_' = Append(pollfds_, [fd |-> FdOf[c], events |-> events_'[c]])
  /\ index_' = [index_ EXCEPT ![c] = NewIndex]
  /\ channels_' = Mapped(c)

EntryFd(c, ev) == IF ev = {} THEN Ignored(FdOf[c]) ELSE FdOf[c]

\* updateChannel() of one that is.
ModifyChannel(c) ==
  /\ index_[c] >= 0
  /\ pollfds_' = [pollfds_ EXCEPT ![index_[c] + 1] =
                    [fd |-> EntryFd(c, events_'[c]), events |-> events_'[c]]]
  /\ UNCHANGED <<index_, channels_>>

updateChannel(c) == SetEvents(c) /\ (AddChannel(c) \/ ModifyChannel(c))

\* Mutant: the moved channel keeps its old index.
MovedIndex_Kept(c, idx) == index_

back == pollfds_[Len(pollfds_)]

\* The last entry moves to position idx; its channel is found by its decoded descriptor.
MovedIndex(c, idx) ==
  LET end == back.fd
      channelAtEnd == IF end < 0 THEN Ignored(end) ELSE end
  IN  [index_ EXCEPT ![channels_[channelAtEnd]] = idx]

\* removeChannel(): swap with the last entry and pop.  The removed channel keeps its
\* index_.
removeChannel(c) ==
  /\ remove(c)
  /\ LET idx == index_[c] IN
       /\ LET swapped == IF idx = Len(pollfds_) - 1 THEN pollfds_ ELSE [pollfds_ EXCEPT ![idx + 1] = back]
          IN  pollfds_' = SubSeq(swapped, 1, Len(pollfds_) - 1)
       /\ index_' = IF idx = Len(pollfds_) - 1 THEN index_ ELSE MovedIndex(c, idx)

\* poll(2) reports any entry that is not ignored, reads and writes only if wanted but
\* hang-ups and errors always; fillActiveChannels() finds the channel in the map.
poll ==
  /\ \E ready \in SUBSET {i \in DOMAIN pollfds_ : pollfds_[i].fd >= 0} :
       activeChannels' = {channels_[pollfds_[i].fd] : i \in ready}
  /\ UNCHANGED <<live, removed, events_, index_, addedToLoop_, channels_, pollfds_>>

ConstructChannel(c) == Construct(c) /\ UNCHANGED pollfds_
DestructChannel(c) == Destruct(c) /\ UNCHANGED pollfds_

Next ==
  \/ poll
  \/ \E c \in Channels :
       updateChannel(c) \/ removeChannel(c) \/ ConstructChannel(c) \/ DestructChannel(c)

Spec == Init /\ [][Next]_vars

------------------------------------------------------------------------------
decoded(fd) == IF fd < 0 THEN Ignored(fd) ELSE fd

\* Vector, map and indices agree (the assertions of PollPoller.cc:69-72, 87-110): the
\* vector has one entry for each channel of the map and the channel's index_ leads to
\* it, whatever was swapped into its place; so poll() finds the channel of every
\* reported entry.
VectorAgrees ==
  /\ Len(pollfds_) = Cardinality(DOMAIN channels_)
  /\ \A c \in live \ removed :
       IF index_[c] < 0 THEN ~fdKnown(c)
       ELSE /\ hasChannel(c) /\ index_[c] < Len(pollfds_)
            /\ decoded(pollfds_[index_[c] + 1].fd) = FdOf[c]
            /\ pollfds_[index_[c] + 1].events = events_[c]

\* "pfd.fd == -channel->fd()-1 && pfd.events == channel->events()" (PollPoller.cc:133)
\* holds for every channel a client may remove.
RemoveAssertionHolds ==
  \A c \in live : Removable(c) =>
    pollfds_[index_[c] + 1] = [fd |-> Ignored(FdOf[c]), events |-> events_[c]]

\* poll(2) is never asked about a channel that wants nothing (PollPoller.cc:114-118):
\* its descriptor is negative in the vector, descriptor 0 included.
IdleEntriesIgnored == \A i \in DOMAIN pollfds_ : pollfds_[i].events = {} => pollfds_[i].fd < 0
=============================================================================
