------------------------------ MODULE Connector ------------------------------
(***************************************************************************)
(* muduo::net::Connector: a socket is connected without blocking, watched  *)
(* by a channel until it is writable, and tried again later, with growing  *)
(* delays, if that fails.  Steps of its loop; what its owner calls is in   *)
(* TcpClient.  The loop's iteration is that of EventLoop: poll, handlers,  *)
(* the functors queued until then.                                         *)
(***************************************************************************)
EXTENDS Integers, Sequences

CONSTANTS kInitRetryDelayMs, kMaxRetryDelayMs

ASSUME ConnectorAssumption ==
  /\ kInitRetryDelayMs \in Nat \ {0} /\ kMaxRetryDelayMs \in Nat
  /\ kInitRetryDelayMs <= kMaxRetryDelayMs

VARIABLES gaveUp,         \* has connect(2) failed in a way that is not retried?
          connect_,       \* Connector::connect_
          state_,
          channel_,       \* "none", "on", or "removed" until resetChannel() runs
          retryDelayMs_,
          timers,         \* retry timers that run
          due,            \* how many of them the last poll found expired
          sockets,        \* sockets opened, not closed and not handed over
          calling,        \* what a handler has decided to call: "newConnection", "restart", "none"
          revents,        \* events of channel_ not handled yet
          phase, batch,   \* of the loop's iteration; functors of the swapped batch left
          queue,          \* functors, a swapped batch included
          overruled       \* history: did stopInLoop(), of the reset that is queued, find connect_ set?

attemptVars == <<state_, channel_, sockets, gaveUp>>
retryVars == <<retryDelayMs_, timers>>
loopVars == <<phase, batch, due>>
connectorVars == <<connect_, attemptVars, retryVars, calling, revents, loopVars, queue, overruled>>

ConnectorTypeOK ==
  /\ connect_ \in BOOLEAN /\ gaveUp \in BOOLEAN /\ overruled \in BOOLEAN
  /\ state_ \in {"kDisconnected", "kConnecting", "kConnected"}
  /\ channel_ \in {"none", "on", "removed"}
  /\ retryDelayMs_ \in kInitRetryDelayMs .. kMaxRetryDelayMs
  /\ timers \in Nat /\ due \in 0 .. timers /\ sockets \in Nat
  /\ calling \in {"none", "newConnection", "restart"}
  /\ revents \subseteq {"ERR", "OUT"}
  /\ phase \in {"poll", "handle", "functors"} /\ batch \in 0 .. Len(queue)

ConnectorInit ==
  /\ connect_ = FALSE /\ gaveUp = FALSE /\ state_ = "kDisconnected" /\ channel_ = "none"
  /\ retryDelayMs_ = kInitRetryDelayMs /\ timers = 0 /\ due = 0 /\ sockets = 0 /\ calling = "none"
  /\ revents = {} /\ phase = "poll" /\ batch = 0 /\ queue = <<>> /\ overruled = FALSE

------------------------------------------------------------------------------
(* Pieces of handlers. *)

NextDelay(d) == IF 2 * d <= kMaxRetryDelayMs THEN 2 * d ELSE kMaxRetryDelayMs

\* Mutant: the socket that failed is not closed.
Closed_Leaked(n) == n

\* sockets::close(sockfd), with n sockets open
Closed(n) == n - 1

\* Mutant: the attempt is dropped.
Retries_Never(on) == FALSE

Retries(on) == on

\* Mutant: state_ is left as it is.
AfterRetry_Kept == state_

AfterRetry == "kDisconnected"

\* retry(sockfd), with n sockets open, t timers running and the delay at d.
Retry(n, on, t, d) ==
  /\ sockets' = Closed(n) /\ UNCHANGED gaveUp
  /\ state_' = AfterRetry
  /\ timers' = IF Retries(on) THEN t + 1 ELSE t
  /\ retryDelayMs_' = IF Retries(on) THEN NextDelay(d) ELSE d

\* connect(): the socket is being connected, is to be tried again, or is given up.  Its
\* callers assert or make state_ kDisconnected; connecting() asserts that there is no channel,
\* where the program ends if there is one.
Connect(t, d) ==
  \/ /\ channel_ = "none"
     /\ state_' = "kConnecting" /\ channel_' = "on" /\ sockets' = sockets + 1
     /\ timers' = t /\ retryDelayMs_' = d /\ UNCHANGED gaveUp
  \/ Retry(sockets + 1, TRUE, t, d) /\ UNCHANGED channel_
  \/ timers' = t /\ retryDelayMs_' = d /\ UNCHANGED <<channel_, sockets>>
     /\ state_' = "kDisconnected" /\ gaveUp' = TRUE

\* startInLoop(), with connect_ = on; it asserts that state_ is kDisconnected.
startInLoop(on, t, d) ==
  IF on THEN Connect(t, d) ELSE timers' = t /\ retryDelayMs_' = d /\ UNCHANGED attemptVars

ResetQueued(q) == Append(q, "resetChannel")

\* removeAndResetChannel(), with q the functors queued before.
removeAndResetChannel(q) == channel_' = "removed" /\ queue' = ResetQueued(q)

------------------------------------------------------------------------------
(* Events of the loop. *)

\* The channel is reported writable if it is, with an error if there is one.  A retry timer runs for
\* half a second, but an iteration may take longer than that: it may have expired in any poll.
poll ==
  /\ phase = "poll" /\ phase' = "handle"
  /\ revents' \in IF channel_ = "on" THEN {{}, {"OUT"}, {"ERR", "OUT"}} ELSE {{}}
  /\ due' \in 0 .. timers
  /\ UNCHANGED <<connect_, overruled, attemptVars, retryVars, calling, batch, queue>>

\* handleError() comes before handleWrite().
handleError ==
  /\ "ERR" \in revents /\ calling = "none"
  /\ revents' = revents \ {"ERR"}
  /\ IF state_ = "kConnecting"
     THEN removeAndResetChannel(queue) /\ Retry(sockets, connect_, timers, retryDelayMs_)
     ELSE UNCHANGED <<attemptVars, retryVars, queue>>
  /\ UNCHANGED <<connect_, overruled, calling, loopVars>>

Attempting == state_ = "kConnecting"

StillWanted == connect_

\* handleWrite(): an error or a self-connection is retried; else the socket goes to the
\* owner (see TcpClient) or, if it does not want it any more, is closed.
handleWrite ==
  /\ revents = {"OUT"} /\ calling = "none"
  /\ revents' = {}
  /\ IF ~Attempting THEN UNCHANGED <<attemptVars, retryVars, queue, calling>>
     ELSE /\ removeAndResetChannel(queue)
          /\ \/ Retry(sockets, connect_, timers, retryDelayMs_) /\ UNCHANGED calling
             \/ /\ state_' = "kConnected"
                /\ calling' = IF StillWanted THEN "newConnection" ELSE "none"
                /\ sockets' = IF StillWanted THEN sockets ELSE Closed(sockets)
                /\ UNCHANGED <<retryVars, gaveUp>>
  /\ UNCHANGED <<connect_, overruled, loopVars>>

\* A retry timer calls startInLoop().
RetryTimer ==
  /\ due > 0 /\ due' = due - 1 /\ calling = "none"
  /\ startInLoop(connect_, timers - 1, retryDelayMs_)
  /\ UNCHANGED <<connect_, overruled, calling, revents, phase, batch, queue>>

\* doPendingFunctors() swaps the queue once every active channel is handled.
SwapFunctors ==
  /\ phase = "handle" /\ revents = {} /\ due = 0 /\ calling = "none"
  /\ phase' = "functors" /\ batch' = Len(queue)
  /\ UNCHANGED <<connect_, overruled, attemptVars, retryVars, calling, revents, due, queue>>

EndFunctors ==
  /\ phase = "functors" /\ batch = 0 /\ calling = "none"
  /\ phase' = "poll"
  /\ UNCHANGED <<connect_, overruled, attemptVars, retryVars, calling, revents, batch, due, queue>>

\* The next functor is f.
Functor(f) == calling = "none" /\ batch > 0 /\ Head(queue) = f /\ batch' = batch - 1

StartFunctor ==
  /\ Functor("startInLoop")
  /\ queue' = Tail(queue)
  /\ startInLoop(connect_, timers, retryDelayMs_)
  /\ UNCHANGED <<connect_, overruled, calling, revents, phase, due>>

StopsAttempt == state_ = "kConnecting"

stopInLoop ==
  /\ Functor("stopInLoop")
  /\ IF StopsAttempt
     THEN /\ removeAndResetChannel(Tail(queue)) /\ Retry(sockets, connect_, timers, retryDelayMs_)
          /\ overruled' = connect_
     ELSE queue' = Tail(queue) /\ UNCHANGED <<attemptVars, retryVars, overruled>>
  /\ UNCHANGED <<connect_, calling, revents, phase, due>>

resetChannel ==
  /\ Functor("resetChannel")
  /\ queue' = Tail(queue)
  /\ channel_' = "none" /\ overruled' = FALSE
  /\ UNCHANGED <<connect_, state_, sockets, gaveUp, retryVars, calling, revents, phase, due>>

ConnectorStep ==
  \/ poll \/ handleError \/ handleWrite \/ RetryTimer
  \/ SwapFunctors \/ StartFunctor \/ stopInLoop \/ resetChannel \/ EndFunctors
=============================================================================
