---------------------------- MODULE TcpConnection ----------------------------
(***************************************************************************)
(* One muduo::net::TcpConnection and the TcpServer that owns it: from      *)
(* newConnection() to connectDestroyed(), with what the peer does, what    *)
(* user code in the connection's I/O loop and another thread call, and the *)
(* two loops (base and I/O) that hand each other functors.  A handler is a *)
(* step; user callbacks are the calls user code makes between steps.  The  *)
(* channel is the one of EPollPoller: chan is events_, polled says that it *)
(* is in the kernel's set.                                                 *)
(***************************************************************************)
EXTENDS Integers, Sequences

CONSTANTS Uses,           \* the programs: sets of [sameLoop, loopCalls, remoteCalls, serverDtor]
          MaxSends,       \* bound: calls of send()
          MaxQueue,       \* bound: functors waiting in the I/O loop when one is added by a call
          MsgLen,         \* bytes in a message
          HighWaterMark   \* highWaterMark_

Ops == {"send", "shutdown", "forceClose", "forceCloseWithDelay", "startRead", "stopRead"}

ASSUME ConnectionAssumption ==
  /\ Uses \subseteq [sameLoop : BOOLEAN, loopCalls : SUBSET Ops, serverDtor : BOOLEAN,
                     remoteCalls : SUBSET (Ops \ {"forceCloseWithDelay"})]
  /\ MaxSends \in Nat /\ MaxQueue \in Nat /\ MsgLen \in Nat \ {0} /\ HighWaterMark \in Nat

(***************************************************************************)
(* A program is: is the I/O loop the server's base loop (no thread pool);  *)
(* what user code in the I/O loop calls, while the connection is up; what  *)
(* another thread calls; may the server be destructed.                     *)
(***************************************************************************)
VARIABLES use,            \* the program that runs
          state_,         \* StateE, or "none" before the connection is accepted
          reading_,
          chan, polled,   \* the channel's events_; is it in the epoll set?
          removed,        \* has the channel been removed (connectDestroyed)?
          outputBuffer_,  \* bytes, numbered in the order sendInLoop() got them
          wire,           \* bytes the kernel has taken
          accepted,       \* how many bytes sendInLoop() got
          lost,           \* did a write fail with EPIPE or ECONNRESET?
          wrShut,         \* has the write side of the socket been shut down?
          peer,           \* "open", "fin", "rst"; "dead" after a read reported the reset
          incoming,       \* does the socket hold unread data?
          revents,        \* events of the last poll not handled yet
          phase, batch,   \* of the I/O loop's iteration; functors of the swapped batch left
          ioQueue, baseQueue, \* functors of the two loops, a swapped batch included
          remote,         \* the call the other thread is in, past its test of state_
          delayed,        \* does a timer of forceCloseWithDelay() run (several count as one)?
          sends,          \* calls of send() made
          inMap,          \* is the connection in connections_?
          serverAlive,
          downs,          \* history: connectionCallback_ calls for "disconnected"
          destroys        \* history: calls of connectDestroyed()

chanVars == <<chan, polled>>
outVars == <<outputBuffer_, wire, accepted, lost>>
netVars == <<peer, incoming>>
loopVars == <<revents, phase, batch>>
serverVars == <<inMap, serverAlive>>
historyVars == <<downs, destroys>>
vars == <<state_, reading_, chanVars, removed, outVars, wrShut, netVars, loopVars, ioQueue, baseQueue,
          remote, delayed, sends, serverVars, historyVars>>

States == {"none", "kConnecting", "kConnected", "kDisconnecting", "kDisconnected"}
Functors == {"established", "destroyed", "forceClose", "shutdown", "send", "startRead",
             "stopRead", "callback"}
Up == {"kConnected", "kDisconnecting"}

TypeOK ==
  /\ use \in Uses
  /\ state_ \in States /\ reading_ \in BOOLEAN
  /\ chan \subseteq {"read", "write"} /\ polled \in BOOLEAN /\ removed \in BOOLEAN
  /\ outputBuffer_ \in Seq(Nat) /\ wire \in Seq(Nat)
  /\ lost \in BOOLEAN /\ wrShut \in BOOLEAN
  /\ peer \in {"open", "fin", "rst", "dead"} /\ incoming \in BOOLEAN
  /\ revents \subseteq {"HUP", "ERR", "IN", "OUT"}
  /\ phase \in {"poll", "handle", "functors"} /\ batch \in 0 .. Len(ioQueue)
  /\ ioQueue \in Seq(Functors) /\ baseQueue \in Seq({"remove"})
  /\ remote \in use.remoteCalls \cup {"idle"}
  /\ delayed \in BOOLEAN /\ sends \in 0 .. MaxSends
  /\ inMap \in BOOLEAN /\ serverAlive \in BOOLEAN

Init ==
  /\ use \in Uses
  /\ state_ = "none" /\ reading_ = TRUE /\ chan = {} /\ polled = FALSE /\ removed = FALSE
  /\ outputBuffer_ = <<>> /\ wire = <<>> /\ accepted = 0 /\ lost = FALSE /\ wrShut = FALSE
  /\ peer = "open" /\ incoming = FALSE /\ revents = {} /\ phase = "poll" /\ batch = 0
  /\ ioQueue = <<>> /\ baseQueue = <<>> /\ remote = "idle" /\ delayed = FALSE /\ sends = 0
  /\ inMap = FALSE /\ serverAlive = TRUE /\ downs = 0 /\ destroys = 0

------------------------------------------------------------------------------
(* Pieces of handlers. *)

\* A reference to the connection exists: the map's, one bound to a functor, or one of a
\* user whose call has not been carried out yet.  The functors of send(), shutdown() and the
\* like are bound to the bare this (TcpConnection.cc:119, 144, 224, 318, 333); they count
\* because whoever queued them is taken to hold the connection until they have run.
Referenced == inMap \/ ioQueue # <<>> \/ baseQueue # <<>> \/ remote # "idle"

isWriting == "write" \in chan

\* Channel::update() with EPollPoller: an unregistered channel is added whatever it
\* wants, a registered one that wants nothing is deleted.
SetChannel(ev) == chan' = ev /\ polled' = ~(polled /\ ev = {})

\* connections_.erase()
Erased == FALSE

\* connectionCallback_ and closeCallback_ of handleClose().  removeConnection() reaches
\* the base loop by a functor, or at once if that is the same loop; then the functor
\* for connectDestroyed() is queued behind q.
NotifyClosed(q) ==
  /\ downs' = downs + 1
  /\ IF use.sameLoop THEN inMap' = Erased /\ ioQueue' = Append(q, "destroyed") /\ UNCHANGED baseQueue
                 ELSE baseQueue' = Append(baseQueue, "remove") /\ ioQueue' = q /\ UNCHANGED inMap

\* Mutant: the channel is left enabled.
ClosedChannel_StaysOn == UNCHANGED chanVars

ClosedChannel == SetChannel({})

\* handleClose(), with q the functors queued before.
handleClose(q) ==
  /\ state_' = "kDisconnected"
  /\ ClosedChannel
  /\ NotifyClosed(q)
  /\ UNCHANGED <<reading_, removed, outVars, wrShut, netVars, remote, delayed, sends, serverAlive, destroys>>

\* write(2) of len bytes: how many it takes (0 for EWOULDBLOCK), or a fault.
Fault == -1
WriteResults(len) == IF wrShut \/ peer \in {"rst", "dead"} THEN {Fault} ELSE 0 .. len

\* Mutant: a message is written directly although older bytes wait in the buffer.
WriteDirectly_Always == TRUE

WriteDirectly == ~isWriting /\ outputBuffer_ = <<>>

\* sendInLoop(), with q the queue the callbacks are appended to.
sendInLoop(q) ==
  IF state_ = "kDisconnected" THEN ioQueue' = q /\ UNCHANGED <<chanVars, outVars>>
  ELSE \E res \in IF WriteDirectly THEN WriteResults(MsgLen) ELSE {0} :
    LET fault == res = Fault
        nwrote == IF fault THEN 0 ELSE res
        oldLen == Len(outputBuffer_)
        message == [i \in 1 .. MsgLen |-> accepted + i]
        rest == IF fault THEN <<>> ELSE SubSeq(message, nwrote + 1, MsgLen)
        high == oldLen + Len(rest) >= HighWaterMark /\ oldLen < HighWaterMark
    IN  /\ accepted' = accepted + MsgLen
        /\ wire' = wire \o SubSeq(message, 1, nwrote)
        /\ lost' = (lost \/ fault)
        /\ outputBuffer_' = outputBuffer_ \o rest
        /\ IF rest # <<>> /\ ~isWriting THEN SetChannel(chan \cup {"write"})
                                        ELSE UNCHANGED chanVars
        /\ ioQueue' = IF ~fault /\ (rest = <<>> \/ high) THEN Append(q, "callback") ELSE q

ShutdownNow == ~isWriting

\* shutdownInLoop()
shutdownInLoop == wrShut' = (wrShut \/ ShutdownNow)

startReadInLoop == IF ~reading_ \/ "read" \notin chan
                   THEN SetChannel(chan \cup {"read"}) /\ reading_' = TRUE
                   ELSE UNCHANGED <<chanVars, reading_>>

stopReadInLoop == IF reading_ \/ "read" \in chan
                  THEN SetChannel(chan \ {"read"}) /\ reading_' = FALSE
                  ELSE UNCHANGED <<chanVars, reading_>>

------------------------------------------------------------------------------
(* The server, in its base loop. *)

\* Acceptor::handleRead() got a connection: newConnection(), whose last line runs or
\* queues connectEstablished().
newConnection ==
  /\ state_ = "none" /\ serverAlive /\ (use.sameLoop => phase = "handle")
  /\ inMap' = TRUE
  /\ IF use.sameLoop THEN state_' = "kConnected" /\ SetChannel({"read"}) /\ UNCHANGED ioQueue
                 ELSE state_' = "kConnecting" /\ ioQueue' = Append(ioQueue, "established")
                      /\ UNCHANGED chanVars
  /\ UNCHANGED <<reading_, removed, outVars, wrShut, netVars, loopVars, baseQueue, remote, delayed, sends,
                 serverAlive, historyVars>>

removeConnectionInLoop ==
  /\ baseQueue # <<>>
  /\ baseQueue' = Tail(baseQueue)
  /\ inMap' = Erased
  /\ ioQueue' = Append(ioQueue, "destroyed")
  /\ UNCHANGED <<state_, reading_, chanVars, removed, outVars, wrShut, netVars, loopVars, remote, delayed,
                 sends, serverAlive, historyVars>>

\* connectDestroyed(), with q the queue that is left.
Destroy(q) ==
  /\ IF state_ = "kConnected" THEN state_' = "kDisconnected" /\ chan' = {} /\ downs' = downs + 1
                              ELSE UNCHANGED <<state_, chan, downs>>
  /\ polled' = FALSE /\ removed' = TRUE
  /\ destroys' = destroys + 1
  /\ ioQueue' = q
  /\ UNCHANGED <<reading_, outVars, wrShut, netVars, baseQueue, remote, delayed, sends>>

\* ~TcpServer(), not called from a handler of the iteration that reported this channel,
\* nor with a functor bound to the server still queued.
DestructServer ==
  /\ use.serverDtor /\ serverAlive /\ (use.sameLoop => revents = {}) /\ baseQueue = <<>>
  /\ IF ~inMap THEN UNCHANGED <<state_, reading_, chanVars, removed, outVars, wrShut, netVars,
                               ioQueue, baseQueue, remote, delayed, sends, inMap, historyVars>>
     ELSE inMap' = FALSE /\
          IF use.sameLoop THEN Destroy(ioQueue)
          ELSE /\ ioQueue' = Append(ioQueue, "destroyed")
               /\ UNCHANGED <<state_, reading_, chanVars, removed, outVars, wrShut, netVars,
                              baseQueue, remote, delayed, sends, historyVars>>
  /\ serverAlive' = FALSE
  /\ UNCHANGED loopVars

------------------------------------------------------------------------------
(* The I/O loop. *)

\* What EPollPoller::poll() reports of the channel.  HUP and ERR need not be asked for.
Ready ==
  (IF peer \in {"rst", "dead"} \/ (peer = "fin" /\ wrShut) THEN {"HUP"} ELSE {})
  \cup (IF peer = "rst" THEN {"ERR"} ELSE {})
  \cup (IF "read" \in chan /\ (incoming \/ peer # "open") THEN {"IN"} ELSE {})

poll ==
  /\ phase = "poll" /\ phase' = "handle"
  /\ \E out \in SUBSET (IF isWriting THEN {"OUT"} ELSE {}) :
       revents' = IF polled THEN Ready \cup out ELSE {}
  /\ UNCHANGED <<batch, state_, reading_, chanVars, removed, outVars, wrShut, netVars, ioQueue, baseQueue,
                 remote, delayed, sends, serverVars, historyVars>>

\* Channel::handleEventWithGuard() takes the events in the order HUP, ERR, IN, OUT.
\* HUP closes only if there is nothing to read.
HandleHup ==
  /\ "HUP" \in revents
  /\ revents' = revents \ {"HUP"}
  /\ UNCHANGED <<phase, batch>>
  /\ IF "IN" \notin revents THEN handleClose(ioQueue)
     ELSE UNCHANGED <<state_, reading_, chanVars, removed, outVars, wrShut, netVars, ioQueue,
                      baseQueue, remote, delayed, sends, serverVars, historyVars>>

HandleErr ==
  /\ "ERR" \in revents /\ "HUP" \notin revents
  /\ revents' = revents \ {"ERR"}
  /\ UNCHANGED <<phase, batch>>
  /\ UNCHANGED <<state_, reading_, chanVars, removed, outVars, wrShut, netVars, ioQueue, baseQueue,
                 remote, delayed, sends, serverVars, historyVars>>

\* handleRead(): data, the end of the stream, or an error.  A reset is reported by one
\* failing read, after which read returns 0.
handleRead ==
  /\ "IN" \in revents /\ revents \cap {"HUP", "ERR"} = {}
  /\ revents' = revents \ {"IN"}
  /\ UNCHANGED <<phase, batch>>
  /\ IF ~incoming /\ peer \in {"fin", "dead"} THEN handleClose(ioQueue)
     ELSE /\ incoming' = FALSE
          /\ peer' = IF ~incoming /\ peer = "rst" THEN "dead" ELSE peer
          /\ UNCHANGED <<state_, reading_, chanVars, removed, outVars, wrShut, ioQueue, baseQueue,
                         remote, delayed, sends, serverVars, historyVars>>

Drained == chan \ {"write"}

ShutdownAfterDrain == state_ = "kDisconnecting"

handleWrite ==
  /\ revents = {"OUT"}
  /\ revents' = {}
  /\ UNCHANGED <<phase, batch>>
  /\ IF ~isWriting THEN UNCHANGED <<chanVars, outVars, wrShut, ioQueue>>
     ELSE \E res \in WriteResults(Len(outputBuffer_)) :
       LET n == IF res = Fault THEN 0 ELSE res
           drained == n = Len(outputBuffer_)
       IN  /\ wire' = wire \o SubSeq(outputBuffer_, 1, n)
           /\ outputBuffer_' = SubSeq(outputBuffer_, n + 1, Len(outputBuffer_))
           /\ IF n > 0 /\ drained THEN SetChannel(Drained) /\ ioQueue' = Append(ioQueue, "callback")
                                       /\ wrShut' = (wrShut \/ ShutdownAfterDrain)
                                  ELSE UNCHANGED <<chanVars, ioQueue, wrShut>>
           /\ UNCHANGED <<accepted, lost>>
  /\ UNCHANGED <<state_, reading_, removed, netVars, baseQueue, remote, delayed, sends, serverVars, historyVars>>

\* connectEstablished()
connectEstablished ==
  /\ state_' = "kConnected" /\ SetChannel(chan \cup {"read"})
  /\ ioQueue' = Tail(ioQueue)
  /\ UNCHANGED <<reading_, removed, outVars, wrShut, netVars, baseQueue, remote, delayed, sends,
                 serverVars, historyVars>>

\* A functor of doPendingFunctors() that only runs user code (writeCompleteCallback_,
\* highWaterMarkCallback_).
UserCallback ==
  /\ ioQueue' = Tail(ioQueue)
  /\ UNCHANGED <<state_, reading_, chanVars, removed, outVars, wrShut, netVars, baseQueue,
                 remote, delayed, sends, serverVars, historyVars>>

\* Mutants: a second close request closes again; a request is no longer carried out
\* once it has set kDisconnecting.
StillUp_Always == TRUE
StillUp_OnlyConnected == state_ = "kConnected"

StillUp == state_ \in Up

forceCloseInLoop ==
  IF StillUp THEN handleClose(Tail(ioQueue)) ELSE UserCallback

\* What the raw-pointer functors do; what send/shutdown/startRead/stopRead share.
InLoop(op, q) ==
  /\ CASE op = "send" -> sendInLoop(q) /\ UNCHANGED <<reading_, wrShut>>
       [] op = "shutdown" -> shutdownInLoop /\ ioQueue' = q /\ UNCHANGED <<reading_, chanVars, outVars>>
       [] op = "startRead" -> startReadInLoop /\ ioQueue' = q /\ UNCHANGED <<wrShut, outVars>>
       [] op = "stopRead" -> stopReadInLoop /\ ioQueue' = q /\ UNCHANGED <<wrShut, outVars>>
  /\ UNCHANGED <<removed, netVars, baseQueue, remote, serverVars, historyVars>>

\* doPendingFunctors() swaps the queue once every active channel is handled; what is
\* queued from then on waits for the next iteration.
SwapFunctors ==
  /\ phase = "handle" /\ revents = {}
  /\ phase' = "functors" /\ batch' = Len(ioQueue)
  /\ UNCHANGED <<revents, state_, reading_, chanVars, removed, outVars, wrShut, netVars, ioQueue,
                 baseQueue, remote, delayed, sends, serverVars, historyVars>>

EndFunctors ==
  /\ phase = "functors" /\ batch = 0
  /\ phase' = "poll"
  /\ UNCHANGED <<revents, batch, state_, reading_, chanVars, removed, outVars, wrShut, netVars, ioQueue,
                 baseQueue, remote, delayed, sends, serverVars, historyVars>>

BatchLeft == batch - 1

RunFunctor ==
  /\ batch > 0 /\ batch' = BatchLeft
  /\ UNCHANGED <<revents, phase>>
  /\ LET f == Head(ioQueue)
     IN  \/ f = "established" /\ connectEstablished
         \/ f = "destroyed" /\ Destroy(Tail(ioQueue)) /\ UNCHANGED serverVars
         \/ f = "forceClose" /\ forceCloseInLoop
         \/ f = "callback" /\ UserCallback
         \/ f \in {"send", "shutdown", "startRead", "stopRead"}
            /\ InLoop(f, Tail(ioQueue)) /\ UNCHANGED <<state_, delayed, sends>>

------------------------------------------------------------------------------
(* Calls of the connection's user. *)

\* The test of state_ with which a call begins.
Allowed(op) ==
  CASE op \in {"send", "shutdown"} -> state_ = "kConnected"
    [] op \in {"forceClose", "forceCloseWithDelay"} -> StillUp
    [] OTHER -> state_ # "none"

\* What it sets state_ to.
Requested(op) ==
  IF op \in {"shutdown", "forceClose", "forceCloseWithDelay"} THEN "kDisconnecting" ELSE state_

Counted(op) == sends' = IF op = "send" THEN sends + 1 ELSE sends
Bounded(op) == (op = "send" => sends < MaxSends) /\ Len(ioQueue) < MaxQueue

\* A call in the I/O loop: test and effect are one step; forceClose() queues its functor,
\* the others run theirs.  User code has a connection once connectEstablished() ran.
Call(op) ==
  /\ op \in use.loopCalls /\ Bounded(op) /\ phase # "poll"
  /\ state_ \in Up
  /\ Allowed(op)
  /\ state_' = Requested(op)
  /\ Counted(op)
  /\ delayed' = (delayed \/ op = "forceCloseWithDelay")
  /\ IF op \in {"forceClose", "forceCloseWithDelay"}
     THEN /\ ioQueue' = IF op = "forceClose" THEN Append(ioQueue, op) ELSE ioQueue
          /\ UNCHANGED <<reading_, chanVars, removed, outVars, wrShut, netVars, baseQueue,
                         remote, serverVars, historyVars>>
     ELSE InLoop(op, ioQueue)
  /\ UNCHANGED loopVars

\* The timer of forceCloseWithDelay() calls forceClose(), in a handler of the loop, if
\* the connection still exists (a weak callback).
DelayedForceClose ==
  /\ delayed /\ phase = "handle"
  /\ delayed' = FALSE
  /\ IF Referenced /\ StillUp
     THEN state_' = "kDisconnecting" /\ ioQueue' = Append(ioQueue, "forceClose")
     ELSE UNCHANGED <<state_, ioQueue>>
  /\ UNCHANGED <<reading_, chanVars, removed, outVars, wrShut, netVars, loopVars, baseQueue, remote,
                 sends, serverVars, historyVars>>

\* A call in another thread: state_ is tested, and later set and the functor queued.
RemoteTest(op) ==
  /\ remote = "idle" /\ op \in use.remoteCalls /\ Bounded(op)
  /\ inMap /\ Allowed(op)
  /\ remote' = op
  /\ Counted(op)
  /\ UNCHANGED <<state_, reading_, chanVars, removed, outVars, wrShut, netVars, loopVars, ioQueue,
                 baseQueue, delayed, serverVars, historyVars>>

RemoteQueue ==
  /\ remote # "idle"
  /\ state_' = Requested(remote)
  /\ ioQueue' = Append(ioQueue, remote)
  /\ remote' = "idle"
  /\ UNCHANGED <<reading_, chanVars, removed, outVars, wrShut, netVars, loopVars, baseQueue, delayed, sends,
                 serverVars, historyVars>>

------------------------------------------------------------------------------
(* The peer: it sends data, ends its stream or resets the connection. *)
PeerStep ==
  /\ state_ # "none" /\ peer = "open"
  /\ \/ incoming' = TRUE /\ UNCHANGED peer
     \/ peer' \in {"fin", "rst"} /\ UNCHANGED incoming
  /\ UNCHANGED <<state_, reading_, chanVars, removed, outVars, wrShut, loopVars, ioQueue, baseQueue,
                 remote, delayed, sends, serverVars, historyVars>>

\* EventLoop::loop() of the I/O loop.
Iteration == poll \/ HandleHup \/ HandleErr \/ handleRead \/ handleWrite
             \/ SwapFunctors \/ RunFunctor \/ EndFunctors

Next == /\ \/ newConnection \/ removeConnectionInLoop \/ DestructServer
           \/ Iteration
           \/ \E op \in Ops : Call(op) \/ RemoteTest(op)
           \/ RemoteQueue \/ DelayedForceClose
           \/ PeerStep
        /\ UNCHANGED use

Spec == Init /\ [][Next]_<<vars, use>>

------------------------------------------------------------------------------
(* Programs. *)

\* The programs for which a connection is closed once and in order.  Another thread only
\* sends: its other calls change state_ or the channel after the loop closed the connection
\* (TcpConnection.cc:217, 262, 321, 336).  The server is destructed only if its connections
\* are in its own loop (TcpServer.cc:46-54, 105) and none is on its way down, which
\* connectDestroyed() would not finish (TcpConnection.cc:360).  Reading is stopped only if no
\* functor closes the connection and the loop that closes it destroys it in the same iteration:
\* EPollPoller::updateChannel() registers an idle channel again when it is disabled once more.
SafeProgram(u) ==
  /\ u.remoteCalls \subseteq {"send"}
  /\ u.serverDtor => u.sameLoop /\ {"shutdown", "forceClose", "forceCloseWithDelay"} \cap u.loopCalls = {}
  /\ "stopRead" \in u.loopCalls => u.sameLoop /\ {"forceClose", "forceCloseWithDelay"} \cap u.loopCalls = {}

\* The largest of them: without stopRead(), in a loop of the connection's own and in the
\* server's; without the forced closes; and with the server's destructor.
CloseInLoop(same) == [sameLoop |-> same, serverDtor |-> FALSE, remoteCalls |-> {"send"},
                      loopCalls |-> Ops \ {"stopRead"}]
PauseReading == [sameLoop |-> TRUE, serverDtor |-> FALSE, remoteCalls |-> {"send"},
                 loopCalls |-> Ops \ {"forceClose", "forceCloseWithDelay"}]
DestructInLoop == [sameLoop |-> TRUE, serverDtor |-> TRUE, remoteCalls |-> {"send"},
                   loopCalls |-> {"send", "startRead", "stopRead"}]

\* Another thread forces the connection closed.
RemoteForceClose == [sameLoop |-> FALSE, serverDtor |-> FALSE, remoteCalls |-> {"forceClose"},
                     loopCalls |-> {}]

SafeUses == {CloseInLoop(FALSE), CloseInLoop(TRUE), PauseReading, DestructInLoop}
RacyUses == {RemoteForceClose}

\* The two loops run on, a call that another thread has begun ends, and a timer is
\* called (see TimerQueue) in one of the loop's iterations.
FairSpec == Spec /\ WF_vars(Iteration) /\ WF_vars(removeConnectionInLoop) /\ WF_vars(RemoteQueue)
                 /\ SF_vars(DelayedForceClose)

------------------------------------------------------------------------------
(* Properties. *)

\* The user is told at most once that the connection is down, connectDestroyed() "should
\* be called only once", and never before the user was told: whichever of an event, a
\* forceClose() and the server's destructor ends the connection, and in whatever order
\* their functors run in the two loops.
DownThenDestroyedOnce == downs <= 1 /\ destroys <= downs

\* handleClose() asserts that the connection is up: no event that leads to it is handled
\* for a connection that is down already.
ClosesUpConnection ==
  /\ "HUP" \in revents /\ "IN" \notin revents => state_ \in Up
  /\ "IN" \in revents /\ revents \cap {"HUP", "ERR"} = {} /\ ~incoming /\ peer \in {"fin", "dead"}
       => state_ \in Up

\* connectDestroyed() removes the channel, and Channel::remove() asserts that it wants no
\* events: unless connectDestroyed() itself disables it, someone has by the time the
\* functor runs or the server's destructor calls it.
RemovesIdleChannel ==
  /\ ioQueue # <<>> /\ Head(ioQueue) = "destroyed" /\ state_ # "kConnected" => chan = {}
  /\ use.serverDtor /\ use.sameLoop /\ serverAlive /\ inMap /\ revents = {} /\ state_ # "kConnected" => chan = {}

\* When the last reference goes, ~TcpConnection() finds the connection disconnected (it
\* asserts so) and the channel out of the poller.
DestructedWhenDown ==
  state_ # "none" /\ ~Referenced => state_ = "kDisconnected" /\ removed /\ chan = {} /\ ~polled

\* What the code asserts of a connection holds, in any order of events, calls and functors:
\* in handleClose() (TcpConnection.cc:435), Channel::remove() (Channel.cc:66) and
\* ~TcpConnection() (TcpConnection.cc:77).
ConnectionAssertionsHold == TypeOK /\ ClosesUpConnection /\ RemovesIdleChannel /\ DestructedWhenDown

\* The kernel gets the bytes in the order in which sendInLoop() got the messages, whether
\* they were written directly or through outputBuffer_, with none skipped or repeated;
\* only a write that failed for good loses any.  shutdown() ends the stream only after
\* everything sent before it.
StreamInOrder ==
  LET stream == wire \o outputBuffer_
  IN  /\ stream = [i \in 1 .. Len(stream) |-> i]
      /\ ~lost => Len(stream) = accepted
      /\ wrShut /\ state_ \in Up => outputBuffer_ = <<>>

\* A peer that closes or resets is noticed, and the connection leaves the server's map and
\* the poller, unless stopRead() keeps it from being noticed.
PeerCloseIsNoticed == peer # "open" /\ inMap ~> (removed /\ ~inMap) \/ ~reading_

\* forceClose() and forceCloseWithDelay() end the connection even if the peer never does.
ForceCloseEnds ==
  (\E i \in 1 .. Len(ioQueue) : ioQueue[i] = "forceClose") \/ delayed ~> removed /\ ~inMap

\* shutdown() with an empty buffer, or once it drains, ends the stream; unless the
\* connection goes down first or the kernel takes no more.
ShutdownIsCarriedOut ==
  state_ = "kDisconnecting" /\ outputBuffer_ = <<>> ~> wrShut \/ state_ = "kDisconnected" \/ outputBuffer_ # <<>>

\* A connection that is to be closed, by whichever side, is closed in the end and leaves the map
\* (TcpConnection.cc:197-272, 431-446).
ClosesAreCarriedOut == PeerCloseIsNoticed /\ ForceCloseEnds /\ ShutdownIsCarriedOut
=============================================================================
